---- MODULE Spec2Model ----
(***************************************************************************)
(* The flat-file record store of the virtual-museum dashboards and the     *)
(* handlers that use it: app.py (comma-delimited accounts, one JSON object *)
(* per booking line) and p.py (pipe-delimited accounts and bookings).      *)
(*                                                                         *)
(* Text.  A string is a sequence of tokens.  The tokens " ", ",", "|",     *)
(* "\"", "\\", "{", "}", ":" are the single characters the codecs look at; *)
(* every other token is a chunk of one or more characters none of which is *)
(* whitespace, a field delimiter, a quote or a backslash, so strip(),      *)
(* split() and the JSON codec treat it as a unit.  A SHA-256 hex digest is such a  *)
(* chunk: the token "sha256:" \o p stands for the 64 hexadecimal           *)
(* characters of sha256(p), different passwords giving different digests.  *)
(* Passwords are never written or parsed, only hashed, compared and        *)
(* measured, and are plain strings.  Text typed into a single-line input   *)
(* holds no line break, so a file is a sequence of lines.                  *)
(***************************************************************************)
EXTENDS Integers, Sequences, FiniteSets, TLC

VARIABLES
    variant,        \* which script runs: "app" (src/app.py) or "p" (src/p.py)
    users_txt,      \* the file users.txt
    bookings_txt,   \* the file bookings.txt
    logged_in,      \* st.session_state.logged_in
    username,       \* st.session_state.username
    user_bookings,  \* st.session_state.user_bookings (app.py)
    latest_booking, \* st.session_state.latest_booking (p.py): <<>> while the key is absent
    museums_df,     \* the museums table load_data() returned
    now,            \* the wall clock, in seconds after the base instant
    last,           \* what the last handler run did and showed
    appended,       \* history: the records handed to save_user / save_booking
    codec,          \* the record under test of the codec specification
    race,           \* the concurrent sessions: their positions, locals and history
    run,            \* one run of the script: datasets, page, how far it got
    server          \* the server process: the CSV files and what st.cache_data holds

vars == <<variant, users_txt, bookings_txt, logged_in, username, user_bookings,
          latest_booking, museums_df, server, now, last, appended, codec, race, run>>

files == <<users_txt, bookings_txt>>
session == <<logged_in, username, user_bookings, latest_booking>>

(***************************************************************************)
(* Bounds of the model.                                                    *)
(***************************************************************************)
MaxWrites == 3     \* lines written to the two files together
MaxClock == 1      \* seconds the clock advances

(***************************************************************************)
(* Strings.                                                                *)
(***************************************************************************)
SP == " "
COMMA == ","
PIPE == "|"
QUOTE == "\""
BACKSLASH == "\\"

Last(s) == s[Len(s)]
Front(s) == SubSeq(s, 1, Len(s) - 1)

RECURSIVE LStrip(_)
LStrip(s) == IF s # <<>> /\ Head(s) = SP THEN LStrip(Tail(s)) ELSE s

RECURSIVE RStrip(_)
RStrip(s) == IF s # <<>> /\ Last(s) = SP THEN RStrip(Front(s)) ELSE s

\* str.strip(): leading and trailing whitespace removed
Strip(s) == RStrip(LStrip(s))

\* str.split(d): the fields between the occurrences of d, always at least one
RECURSIVE SplitFrom(_, _, _)
SplitFrom(s, d, cur) ==
    IF s = <<>> THEN <<cur>>
    ELSE IF Head(s) = d THEN <<cur>> \o SplitFrom(Tail(s), d, <<>>)
    ELSE SplitFrom(Tail(s), d, Append(cur, Head(s)))

Split(s, d) == SplitFrom(s, d, <<>>)

\* d in s
Contains(s, d) == \E i \in 1..Len(s) : s[i] = d

\* the f-string "{f1}d{f2}d...": the fields joined by the delimiter
RECURSIVE Join(_, _)
Join(fields, d) ==
    IF fields = <<>> THEN <<>>
    ELSE IF Len(fields) = 1 THEN fields[1]
    ELSE fields[1] \o <<d>> \o Join(Tail(fields), d)

IsPrefix(s, t) == Len(s) <= Len(t) /\ SubSeq(t, 1, Len(s)) = s

\* hashlib.sha256(password.encode()).hexdigest()
hash_password(password) == <<"sha256:" \o password>>

(***************************************************************************)
(* Files.  open(name, 'r') of a file that does not exist raises            *)
(* FileNotFoundError; open(name, 'a') creates it.                          *)
(***************************************************************************)
Missing == [exists |-> FALSE, lines |-> <<>>]
File(ls) == [exists |-> TRUE, lines |-> ls]

\* a reader without the os.path.exists guard goes straight to open()
no_exists_check(file) == TRUE

\* os.path.exists(name)
os_path_exists(file) == file.exists

\* with open(name, 'w') as f: f.write(line + "\n") -- not what the writers do
WriteOver(file, line) == File(<<line>>)

\* with open(name, 'a') as f: f.write(line + "\n")
AppendLine(file, line) == File(file.lines \o <<line>>)

(***************************************************************************)
(* Python values the readers build.  None is a token no file holds.  A     *)
(* dict is the sequence of its items in insertion order; assigning to a    *)
(* key it already holds replaces the value in place.                       *)
(***************************************************************************)
None == <<"<None>">>

DictHas(d, k) == \E i \in 1..Len(d) : d[i].key = k

DictGet(d, k) == d[CHOOSE i \in 1..Len(d) : d[i].key = k].val

DictSet(d, k, v) ==
    IF DictHas(d, k)
    THEN [i \in 1..Len(d) |-> IF d[i].key = k THEN [key |-> k, val |-> v] ELSE d[i]]
    ELSE Append(d, [key |-> k, val |-> v])

\* what a call hands back: its return value, whether it called st.error,
\* and whether an exception left it
Returned(v) == [value |-> v, shown_error |-> FALSE, raised |-> FALSE]
Caught(v) == [value |-> v, shown_error |-> TRUE, raised |-> FALSE]
Raised(v) == [value |-> v, shown_error |-> FALSE, raised |-> TRUE]

\* open(name, 'r'): the lines of the file, or FileNotFoundError
OpenRead(file) == IF file.exists THEN Returned(file.lines) ELSE Raised(<<>>)

(***************************************************************************)
(* Accounts, app.py: one line "username,sha256hex" per account.            *)
(***************************************************************************)
app_user_line(new_username, password) ==
    new_username \o <<COMMA>> \o hash_password(password)

\* save_user: returns True; users.txt gains one line
app_save_user(file, new_username, password) ==
    AppendLine(file, app_user_line(new_username, password))

\* a loop body that keeps the first record of a username -- not what
\* load_users does
app_users_of_line_first_wins(users, raw) ==
    LET line == Strip(raw)
        parts == Split(line, COMMA)
    IN  IF line # <<>> /\ Contains(line, COMMA) /\ Len(parts) >= 2
           /\ ~DictHas(users, parts[1])
        THEN DictSet(users, parts[1], parts[2])
        ELSE users

\* the body of the loop over the lines of users.txt
app_users_of_line(users, raw) ==
    LET line == Strip(raw)
        parts == Split(line, COMMA)
    IN  IF line # <<>> /\ Contains(line, COMMA) /\ Len(parts) >= 2
        THEN DictSet(users, parts[1], parts[2])
        ELSE users

RECURSIVE app_users_of_lines(_, _)
app_users_of_lines(users, lines) ==
    IF lines = <<>> THEN users
    ELSE app_users_of_lines(app_users_of_line(users, Head(lines)), Tail(lines))

\* the try block returns the dict; except Exception shows the error and the
\* (still empty) dict is returned
app_load_users(file) ==
    IF os_path_exists(file)
    THEN LET f == OpenRead(file)
         IN  IF f.raised THEN Caught(<<>>)
             ELSE Returned(app_users_of_lines(<<>>, f.value))
    ELSE Returned(<<>>)

(***************************************************************************)
(* Accounts, p.py: one line "username|sha256hex|email|timestamp".          *)
(***************************************************************************)
p_user_line(new_username, password, email, timestamp) ==
    new_username \o <<PIPE>> \o hash_password(password) \o <<PIPE>> \o email
        \o <<PIPE>> \o timestamp

p_save_user(file, new_username, password, email, timestamp) ==
    AppendLine(file, p_user_line(new_username, password, email, timestamp))

p_users_of_line(users, raw) ==
    LET line == Strip(raw)
        parts == Split(line, PIPE)
    IN  IF line # <<>> /\ Len(parts) >= 3
        THEN DictSet(users, parts[1],
                     [password |-> parts[2], email |-> parts[3],
                      timestamp |-> IF Len(parts) > 3 THEN parts[4] ELSE None])
        ELSE users

RECURSIVE p_users_of_lines(_, _)
p_users_of_lines(users, lines) ==
    IF lines = <<>> THEN users
    ELSE p_users_of_lines(p_users_of_line(users, Head(lines)), Tail(lines))

\* no try block: an exception of open() leaves the function
p_load_users(file) ==
    IF os_path_exists(file)
    THEN LET f == OpenRead(file)
         IN  IF f.raised THEN Raised(<<>>)
             ELSE Returned(p_users_of_lines(<<>>, f.value))
    ELSE Returned(<<>>)

(***************************************************************************)
(* Bookings, p.py: nine pipe-delimited fields per line.                    *)
(***************************************************************************)
p_booking_line(b) ==
    Join(<<b.booking_id, b.username, b.museum, b.date, b.time, b.people,
           b.tour_type, b.booking_date, b.status>>, PIPE)

p_save_booking(file, booking_data) ==
    AppendLine(file, p_booking_line(booking_data))

\* bookings.insert(0, {...}) -- not what load_bookings does
p_bookings_newest_first(bookings, raw) ==
    LET line == Strip(raw)
        parts == Split(line, PIPE)
    IN  IF line # <<>> /\ Len(parts) = 9
        THEN <<[booking_id |-> parts[1], username |-> parts[2],
                museum |-> parts[3], date |-> parts[4], time |-> parts[5],
                people |-> parts[6], tour_type |-> parts[7],
                booking_date |-> parts[8], status |-> parts[9]]>> \o bookings
        ELSE bookings

\* if len(parts) >= 9 -- not what load_bookings does
p_bookings_of_longer_line(bookings, raw) ==
    LET line == Strip(raw)
        parts == Split(line, PIPE)
    IN  IF line # <<>> /\ Len(parts) >= 9
        THEN Append(bookings,
                    [booking_id |-> parts[1], username |-> parts[2],
                     museum |-> parts[3], date |-> parts[4], time |-> parts[5],
                     people |-> parts[6], tour_type |-> parts[7],
                     booking_date |-> parts[8], status |-> parts[9]])
        ELSE bookings

p_bookings_of_line(bookings, raw) ==
    LET line == Strip(raw)
        parts == Split(line, PIPE)
    IN  IF line # <<>> /\ Len(parts) = 9
        THEN Append(bookings,
                    [booking_id |-> parts[1], username |-> parts[2],
                     museum |-> parts[3], date |-> parts[4], time |-> parts[5],
                     people |-> parts[6], tour_type |-> parts[7],
                     booking_date |-> parts[8], status |-> parts[9]])
        ELSE bookings

RECURSIVE p_bookings_of_lines(_, _)
p_bookings_of_lines(bookings, lines) ==
    IF lines = <<>> THEN bookings
    ELSE p_bookings_of_lines(p_bookings_of_line(bookings, Head(lines)), Tail(lines))

p_load_bookings(file) ==
    IF os_path_exists(file)
    THEN LET f == OpenRead(file)
         IN  IF f.raised THEN Raised(<<>>)
             ELSE Returned(p_bookings_of_lines(<<>>, f.value))
    ELSE Returned(<<>>)

\* the My Bookings filter: [b for b in all_bookings if b['username'] == username]
RECURSIVE p_user_bookings(_, _)
p_user_bookings(all_bookings, u) ==
    IF all_bookings = <<>> THEN <<>>
    ELSE (IF Head(all_bookings).username = u THEN <<Head(all_bookings)>> ELSE <<>>)
         \o p_user_bookings(Tail(all_bookings), u)

(***************************************************************************)
(* JSON, as json.dumps writes it and json.loads reads it, for the values   *)
(* a booking holds: strings, integers and one level of object.  A value is *)
(* [kind, s, n, members]: kind "str" with the text s, kind "int" with the  *)
(* number n, kind "obj" with the members (a dict of values), and kind      *)
(* "null" for None.                                                        *)
(***************************************************************************)
JStr(s) == [kind |-> "str", s |-> s, n |-> 0, members |-> <<>>]
JInt(n) == [kind |-> "int", s |-> <<>>, n |-> n, members |-> <<>>]
JObj(ms) == [kind |-> "obj", s |-> <<>>, n |-> 0, members |-> ms]
JNull == [kind |-> "null", s |-> <<>>, n |-> 0, members |-> <<>>]

\* the integers a booking can hold (st.number_input: 1 to 50)
JInts == 0..50

IsIntToken(t) == \E n \in JInts : ToString(n) = t
IntOfToken(t) == CHOOSE n \in JInts : ToString(n) = t

\* a string's characters inside the quotes: '"' and '\' get a backslash
RECURSIVE JEscape(_)
JEscape(s) ==
    IF s = <<>> THEN <<>>
    ELSE (IF Head(s) \in {QUOTE, BACKSLASH} THEN <<BACKSLASH, Head(s)>> ELSE <<Head(s)>>)
         \o JEscape(Tail(s))

RECURSIVE json_dumps(_)
RECURSIVE JMembers(_)
JMembers(ms) ==
    IF ms = <<>> THEN <<>>
    ELSE json_dumps(JStr(ms[1].key)) \o <<":", SP>> \o json_dumps(ms[1].val)
         \o (IF Len(ms) > 1 THEN <<COMMA, SP>> \o JMembers(Tail(ms)) ELSE <<>>)

json_dumps(v) ==
    CASE v.kind = "str" -> <<QUOTE>> \o JEscape(v.s) \o <<QUOTE>>
      [] v.kind = "int" -> <<ToString(v.n)>>
      [] v.kind = "null" -> <<"null">>
      [] v.kind = "obj" -> <<"{">> \o JMembers(v.members) \o <<"}">>

\* a parse result: the value and the index after it, or a JSONDecodeError
JOk(v, next) == [ok |-> TRUE, val |-> v, next |-> next]
JError == [ok |-> FALSE, val |-> JNull, next |-> 0]

RECURSIVE JSkip(_, _)
JSkip(s, i) == IF i <= Len(s) /\ s[i] = SP THEN JSkip(s, i + 1) ELSE i

\* the text of a string, from the index after its opening quote
RECURSIVE JParseStr(_, _, _)
JParseStr(s, i, acc) ==
    IF i > Len(s) THEN JError
    ELSE IF s[i] = QUOTE THEN JOk(JStr(acc), i + 1)
    ELSE IF s[i] = BACKSLASH
         THEN IF i + 1 <= Len(s) /\ s[i + 1] \in {QUOTE, BACKSLASH}
              THEN JParseStr(s, i + 2, Append(acc, s[i + 1]))
              ELSE JError
    ELSE JParseStr(s, i + 1, Append(acc, s[i]))

RECURSIVE JParseValue(_, _)
RECURSIVE JParseMembers(_, _, _)
\* the members of an object from the index of a key's opening quote
JParseMembers(s, i, ms) ==
    IF i > Len(s) \/ s[i] # QUOTE THEN JError
    ELSE LET k == JParseStr(s, i + 1, <<>>)
             c == JSkip(s, k.next)
             v == JParseValue(s, JSkip(s, c + 1))
             e == JSkip(s, v.next)
         IN  IF ~k.ok \/ c > Len(s) \/ s[c] # ":" THEN JError
             ELSE IF ~v.ok \/ e > Len(s) THEN JError
             ELSE IF s[e] = "}" THEN JOk(JObj(DictSet(ms, k.val.s, v.val)), e + 1)
             ELSE IF s[e] = COMMA
                  THEN JParseMembers(s, JSkip(s, e + 1), DictSet(ms, k.val.s, v.val))
             ELSE JError

JParseValue(s, i) ==
    IF i > Len(s) THEN JError
    ELSE IF s[i] = QUOTE THEN JParseStr(s, i + 1, <<>>)
    ELSE IF s[i] = "null" THEN JOk(JNull, i + 1)
    ELSE IF IsIntToken(s[i]) THEN JOk(JInt(IntOfToken(s[i])), i + 1)
    ELSE IF s[i] = "{"
         THEN LET j == JSkip(s, i + 1)
              IN  IF j <= Len(s) /\ s[j] = "}" THEN JOk(JObj(<<>>), j + 1)
                  ELSE JParseMembers(s, j, <<>>)
    ELSE JError

\* json.loads(line): one value and nothing but whitespace after it
json_loads(line) ==
    LET r == JParseValue(line, JSkip(line, 1))
    IN  IF r.ok /\ JSkip(line, r.next) > Len(line) THEN r ELSE JError

(***************************************************************************)
(* Bookings, app.py: one JSON object per line.                             *)
(***************************************************************************)
app_booking_line(booking_data) == json_dumps(booking_data)

app_save_booking(file, booking_data) ==
    AppendLine(file, app_booking_line(booking_data))

\* booking.get('username') == username
JGetIs(booking, k, text) ==
    DictHas(booking.members, k) /\ DictGet(booking.members, k) = JStr(text)

\* the loop of load_user_bookings over the lines from index i on: a line
\* that is not JSON is skipped (except json.JSONDecodeError: continue); a
\* JSON value without .get raises AttributeError, which the outer except
\* catches: st.error, and the bookings read so far are returned
RECURSIVE app_bookings_of_lines(_, _, _)
app_bookings_of_lines(bookings, lines, u) ==
    IF lines = <<>> THEN Returned(bookings)
    ELSE LET line == Strip(Head(lines))
             r == json_loads(line)
         IN  IF line = <<>> \/ ~r.ok
             THEN app_bookings_of_lines(bookings, Tail(lines), u)
             ELSE IF r.val.kind # "obj" THEN Caught(bookings)
             ELSE app_bookings_of_lines(
                      IF JGetIs(r.val, <<"username">>, u)
                      THEN Append(bookings, r.val) ELSE bookings,
                      Tail(lines), u)

app_load_user_bookings(file, u) ==
    IF os_path_exists(file)
    THEN LET f == OpenRead(file)
         IN  IF f.raised THEN Caught(<<>>)
             ELSE app_bookings_of_lines(<<>>, f.value, u)
    ELSE Returned(<<>>)

(***************************************************************************)
(* The clock and its formats.  The base instant is 2025-03-01 12:00:00.    *)
(***************************************************************************)
Pad2(n) == IF n < 10 THEN "0" \o ToString(n) ELSE ToString(n)

\* datetime.now().strftime('%Y%m%d%H%M%S')
StampCompact(t) == <<"202503011200" \o Pad2(t)>>

\* datetime.now().strftime('%Y-%m-%d %H:%M:%S')
StampText(t) == <<"2025-03-01", SP, "12:00:" \o Pad2(t)>>

\* str(datetime.now())
StampStr(t) == <<"2025-03-01", SP, "12:00:" \o Pad2(t) \o ".000000">>

\* a booking_id that stops at the minute -- not what the scripts do
booking_id_to_the_minute(t) == <<"BK", "202503011200">>

\* f"BK{datetime.now().strftime('%Y%m%d%H%M%S')}"
booking_id_at(t) == <<"BK">> \o StampCompact(t)

(***************************************************************************)
(* What the user can type and pick.                                        *)
(***************************************************************************)
Alice == <<"alice">>
AliceCommaX == <<"alice", COMMA, "x">>
AlicePipeX == <<"alice", PIPE, "x">>
Usernames == { Alice, AliceCommaX, AlicePipeX }

AliceMail == <<"alice@x.org">>

\* the login form as filled in
LoginForms ==
    [u : Usernames, p : {"password123"}]
        \cup { [u |-> Alice, p |-> "wrongpass"], [u |-> Alice, p |-> ""],
               [u |-> <<>>, p |-> "password123"] }

\* the sign-up form as filled in (app.py has no email field)
SignupForms ==
    [u : Usernames, email : {AliceMail}, p : {"password123"}, c : {"password123"}]
        \cup { [u |-> <<>>, email |-> AliceMail, p |-> "password123", c |-> "password123"],
               [u |-> Alice, email |-> <<>>, p |-> "password123", c |-> "password123"],
               [u |-> Alice, email |-> AliceMail, p |-> "", c |-> "password123"],
               [u |-> Alice, email |-> AliceMail, p |-> "abc", c |-> "abc"],
               [u |-> Alice, email |-> AliceMail, p |-> "abc", c |-> "password123"],
               [u |-> Alice, email |-> AliceMail, p |-> "password123", c |-> "abc"] }

\* the rows of final_museums.csv
AncientWorlds ==
    [Name |-> <<"Ancient", SP, "Worlds">>, City |-> <<"Pune">>,
     State |-> <<"Maharashtra">>, Type |-> <<"History">>]
ArtsAndCrafts ==
    [Name |-> <<"Arts", PIPE, "Crafts">>, City |-> <<"Jaipur">>,
     State |-> <<"Rajasthan">>, Type |-> <<"Art">>]
Museums == << AncientWorlds, ArtsAndCrafts >>

\* pd.DataFrame(): what load_data() returns when reading the CSV files failed
EmptyFrame == << >>

\* the booking form as filled in: the museum picked, the party size, the
\* contact fields and the special requests (app.py)
BookingForms ==
    { [museum |-> AncientWorlds, people |-> 2, email |-> AliceMail,
       phone |-> <<"555">>, requests |-> <<>>],
      [museum |-> ArtsAndCrafts, people |-> 1, email |-> AliceMail,
       phone |-> <<"555">>, requests |-> <<"say", SP, QUOTE, "hi", QUOTE, BACKSLASH>>],
      [museum |-> AncientWorlds, people |-> 2, email |-> <<>>,
       phone |-> <<"555">>, requests |-> <<>>],
      [museum |-> AncientWorlds, people |-> 2, email |-> AliceMail,
       phone |-> <<>>, requests |-> <<>>] }

VisitDate == <<"2025-03-02">>
TourType == <<"Guided", SP, "Tour">>

(***************************************************************************)
(* The login page (show_login_page), one handler run per button press.     *)
(***************************************************************************)
\* a check that accepts any name and password -- not what app.py does
app_credentials_unchecked(users, u, p) == TRUE

\* username in users and users[username] == hash_password(password)
app_credentials_ok(users, u, p) ==
    DictHas(users, u) /\ DictGet(users, u) = hash_password(p)

\* username in users and users[username]['password'] == hash_password(password)
p_credentials_ok(users, u, p) ==
    DictHas(users, u) /\ DictGet(users, u).password = hash_password(p)

LoginDone(u, p, users, ok, message) ==
    [op |-> "login", u |-> u, p |-> p, authenticated |-> ok, message |-> message,
     raised |-> users.raised]

\* a Login handler that keeps the name that was typed even when it rejects
\* the attempt -- not what app.py does
app_Login_keeping_name(u, p) ==
    /\ variant = "app"
    /\ ~logged_in
    /\ LET users == app_load_users(users_txt)
           ok == u # <<>> /\ p # "" /\ app_credentials_ok(users.value, u, p)
       IN  /\ logged_in' = ok
           /\ username' = u
           /\ user_bookings' = IF ok THEN app_load_user_bookings(bookings_txt, u).value
                               ELSE user_bookings
           /\ last' = LoginDone(u, p, users, ok, "")
    /\ UNCHANGED <<variant, files, latest_booking, museums_df, server, race, run, now, appended, codec>>

app_Login(u, p) ==
    /\ variant = "app"
    /\ ~logged_in
    /\ IF u # <<>> /\ p # ""
       THEN LET users == app_load_users(users_txt)
            IN  IF app_credentials_ok(users.value, u, p)
                THEN /\ logged_in' = TRUE
                     /\ username' = u
                     /\ user_bookings' = app_load_user_bookings(bookings_txt, u).value
                     /\ last' = LoginDone(u, p, users, TRUE, "Login successful!")
                ELSE /\ UNCHANGED <<logged_in, username, user_bookings>>
                     /\ last' = LoginDone(u, p, users, FALSE, "Invalid username or password")
       ELSE /\ UNCHANGED <<logged_in, username, user_bookings>>
            /\ last' = LoginDone(u, p, Returned(<<>>), FALSE,
                                 "Please enter username and password")
    /\ UNCHANGED <<variant, files, latest_booking, museums_df, server, race, run, now, appended, codec>>

p_Login(u, p) ==
    /\ variant = "p"
    /\ ~logged_in
    /\ LET users == p_load_users(users_txt)
       IN  IF ~users.raised /\ p_credentials_ok(users.value, u, p)
           THEN /\ logged_in' = TRUE
                /\ username' = u
                /\ last' = LoginDone(u, p, users, TRUE, "Login successful!")
           ELSE /\ UNCHANGED <<logged_in, username>>
                /\ last' = LoginDone(u, p, users, FALSE,
                                     IF users.raised THEN "" ELSE "Invalid username or password")
    /\ UNCHANGED <<variant, files, user_bookings, latest_booking, museums_df, server, race, run, now,
                   appended, codec>>

\* Sign Up without the `new_username in users` check -- not what app.py does
app_signup_message_unchecked(users, new_username, new_password, confirm_password) ==
    IF new_username = <<>> \/ new_password = "" THEN "Please fill all fields"
    ELSE IF Len(new_password) < 6 THEN "Password must be at least 6 characters"
    ELSE IF new_password # confirm_password THEN "Passwords don't match"
    ELSE "Account created successfully! Please login."

\* the Sign Up branch of app.py: the first check that fails names the message
app_signup_message(users, new_username, new_password, confirm_password) ==
    IF new_username = <<>> \/ new_password = "" THEN "Please fill all fields"
    ELSE IF Len(new_password) < 6 THEN "Password must be at least 6 characters"
    ELSE IF new_password # confirm_password THEN "Passwords don't match"
    ELSE IF DictHas(users, new_username) THEN "Username already exists"
    ELSE "Account created successfully! Please login."

\* a Register branch without the length check -- not what p.py does
p_signup_message_any_length(users, new_username, new_email, new_password, confirm_password) ==
    IF new_username = <<>> \/ new_email = <<>> \/ new_password = ""
    THEN "Please fill all fields"
    ELSE IF DictHas(users, new_username) THEN "Username already exists"
    ELSE IF new_password # confirm_password THEN "Passwords do not match"
    ELSE "Registration successful! Please login."

\* the Register branch of p.py
p_signup_message(users, new_username, new_email, new_password, confirm_password) ==
    IF new_username = <<>> \/ new_email = <<>> \/ new_password = ""
    THEN "Please fill all fields"
    ELSE IF DictHas(users, new_username) THEN "Username already exists"
    ELSE IF new_password # confirm_password THEN "Passwords do not match"
    ELSE IF Len(new_password) < 6 THEN "Password must be at least 6 characters"
    ELSE "Registration successful! Please login."

SignupDone(u, users, message, saved) ==
    [op |-> "signup", u |-> u, message |-> message, saved |-> saved,
     raised |-> users.raised]

\* the lines written so far
Writes == Len(users_txt.lines) + Len(bookings_txt.lines)

Account(u, p, e, t) == [username |-> u, password |-> p, email |-> e, timestamp |-> t]

\* Sign Up (app.py) on a disk where open('users.txt', 'a') succeeds
\* (opens) or raises: save_user catches the exception and returns False,
\* and the branch shows "Error creating account"
app_SignUpOnDisk(u, p, c, opens) ==
    /\ variant = "app"
    /\ ~logged_in
    /\ LET users == app_load_users(users_txt)
           message == app_signup_message(users.value, u, p, c)
       IN  IF message = "Account created successfully! Please login."
           THEN IF opens
                THEN /\ Writes < MaxWrites
                     /\ users_txt' = app_save_user(users_txt, u, p)
                     /\ appended' = [appended EXCEPT
                                        !.users = Append(@, Account(u, p, None, None))]
                     /\ last' = SignupDone(u, users, message, TRUE)
                ELSE /\ UNCHANGED <<users_txt, appended>>
                     /\ last' = SignupDone(u, users, "Error creating account", FALSE)
           ELSE /\ UNCHANGED <<users_txt, appended>>
                /\ last' = SignupDone(u, users, message, FALSE)
    /\ UNCHANGED <<variant, bookings_txt, session, museums_df, server, race, run, now, codec>>

app_SignUp(u, p, c) == app_SignUpOnDisk(u, p, c, TRUE)

\* Register (p.py) on a disk where open('users.txt', 'a') succeeds (opens)
\* or raises: save_user has no try block, the exception ends the run
\* before st.success
p_SignUpOnDisk(u, e, p, c, opens) ==
    /\ variant = "p"
    /\ ~logged_in
    /\ LET users == p_load_users(users_txt)
           message == IF users.raised THEN ""
                      ELSE p_signup_message(users.value, u, e, p, c)
       IN  IF message = "Registration successful! Please login."
           THEN IF opens
                THEN /\ Writes < MaxWrites
                     /\ users_txt' = p_save_user(users_txt, u, p, e, StampStr(now))
                     /\ appended' = [appended EXCEPT
                                        !.users = Append(@, Account(u, p, e, StampStr(now)))]
                     /\ last' = SignupDone(u, users, message, TRUE)
                ELSE /\ UNCHANGED <<users_txt, appended>>
                     /\ last' = [SignupDone(u, users, "", FALSE) EXCEPT !.raised = TRUE]
           ELSE /\ UNCHANGED <<users_txt, appended>>
                /\ last' = SignupDone(u, users, message, FALSE)
    /\ UNCHANGED <<variant, bookings_txt, session, museums_df, server, race, run, now, codec>>

p_SignUp(u, e, p, c) == p_SignUpOnDisk(u, e, p, c, TRUE)

(***************************************************************************)
(* The main application, shown while logged_in.                            *)
(***************************************************************************)
\* a Logout that leaves the username in the session -- not what the scripts do
Logout_keeping_name ==
    /\ logged_in
    /\ logged_in' = FALSE
    /\ user_bookings' = <<>>
    /\ last' = [op |-> "logout", raised |-> FALSE]
    /\ UNCHANGED <<variant, files, username, latest_booking, museums_df, server, race, run, now,
                   appended, codec>>

\* Logout: app.py resets logged_in, username and user_bookings, p.py resets
\* logged_in and username
Logout ==
    /\ logged_in
    /\ logged_in' = FALSE
    /\ username' = IF variant = "app" THEN <<>> ELSE None
    /\ user_bookings' = <<>>
    /\ last' = [op |-> "logout", raised |-> FALSE]
    /\ UNCHANGED <<variant, files, latest_booking, museums_df, server, race, run, now, appended, codec>>

Key(name) == <<name>>
Item(name, v) == [key |-> Key(name), val |-> v]

\* booking_data of Book Museum (app.py)
app_booking_data(u, form, t) ==
    JObj(<< Item("booking_id", JStr(booking_id_at(t))),
            Item("username", JStr(u)),
            Item("museum_name", JStr(form.museum.Name)),
            Item("museum_city", JStr(form.museum.City)),
            Item("museum_state", JStr(form.museum.State)),
            Item("museum_type", JStr(form.museum.Type)),
            Item("date", JStr(VisitDate)),
            Item("time", JStr(<<"10:00:00">>)),
            Item("num_people", JInt(form.people)),
            Item("tour_type", JStr(TourType)),
            Item("contact_name", JStr(u)),
            Item("contact_email", JStr(form.email)),
            Item("contact_phone", JStr(form.phone)),
            Item("special_requests", JStr(form.requests)),
            Item("booking_timestamp", JStr(StampText(t))) >>)

\* a booking_id that also carries the party size -- not what p.py does
p_booking_data_id_by_form(u, form, t) ==
    [booking_id |-> booking_id_at(t) \o <<ToString(form.people)>>, username |-> u,
     museum |-> form.museum.Name, date |-> VisitDate, time |-> <<"10:00">>,
     people |-> <<ToString(form.people)>>, tour_type |-> TourType,
     booking_date |-> StampText(t), status |-> <<"Confirmed">>]

\* booking_data of Book Ticket (p.py)
p_booking_data(u, form, t) ==
    [booking_id |-> booking_id_at(t), username |-> u, museum |-> form.museum.Name,
     date |-> VisitDate, time |-> <<"10:00">>, people |-> <<ToString(form.people)>>,
     tour_type |-> TourType, booking_date |-> StampText(t), status |-> <<"Confirmed">>]

BookDone(data, saved, message, raised) ==
    [op |-> "book", booking_data |-> data, saved |-> saved, message |-> message,
     raised |-> raised]

InFrame(frame, row) == \E i \in 1..Len(frame) : frame[i] = row

\* Book Museum, Confirm Booking (app.py); the form is shown only when the
\* museums table is not empty
\* a Confirm Booking that does not test what save_booking returns -- not
\* what app.py does
app_ConfirmBooking_unchecked(form, opens) ==
    /\ variant = "app"
    /\ logged_in
    /\ InFrame(museums_df, form.museum)
    /\ IF form.email # <<>> /\ form.phone # <<>>
       THEN LET booking_data == app_booking_data(username, form, now)
            IN  /\ IF opens
                   THEN /\ Writes < MaxWrites
                        /\ bookings_txt' = app_save_booking(bookings_txt, booking_data)
                        /\ appended' = [appended EXCEPT !.bookings = Append(@, booking_data)]
                   ELSE UNCHANGED <<bookings_txt, appended>>
                /\ user_bookings' = app_load_user_bookings(bookings_txt', username).value
                /\ last' = BookDone(booking_data, TRUE, "Booking Confirmed!", FALSE)
       ELSE /\ UNCHANGED <<bookings_txt, user_bookings, appended>>
            /\ last' = BookDone(JNull, FALSE, "Please fill in all required fields", FALSE)
    /\ UNCHANGED <<variant, users_txt, logged_in, username, latest_booking, museums_df, server, race, run,
                   now, codec>>

\* a Confirm Booking that leaves the session's user_bookings as they were
\* -- not what app.py does
app_ConfirmBooking_not_reloading(form, opens) ==
    /\ variant = "app"
    /\ logged_in
    /\ InFrame(museums_df, form.museum)
    /\ IF form.email # <<>> /\ form.phone # <<>>
       THEN LET booking_data == app_booking_data(username, form, now)
            IN  IF opens
                THEN /\ Writes < MaxWrites
                     /\ bookings_txt' = app_save_booking(bookings_txt, booking_data)
                     /\ appended' = [appended EXCEPT !.bookings = Append(@, booking_data)]
                     /\ last' = BookDone(booking_data, TRUE, "Booking Confirmed!", FALSE)
                ELSE /\ UNCHANGED <<bookings_txt, appended>>
                     /\ last' = BookDone(JNull, FALSE,
                                         "Error saving booking. Please try again.", FALSE)
       ELSE /\ UNCHANGED <<bookings_txt, appended>>
            /\ last' = BookDone(JNull, FALSE, "Please fill in all required fields", FALSE)
    /\ UNCHANGED <<variant, users_txt, logged_in, username, user_bookings, latest_booking,
                   museums_df, server, race, run, now, codec>>

\* Confirm Booking (app.py) on a disk where open('bookings.txt', 'a')
\* succeeds (opens) or raises: save_booking catches the exception and
\* returns False, and the branch shows "Error saving booking"
app_ConfirmBookingOnDisk(form, opens) ==
    /\ variant = "app"
    /\ logged_in
    /\ InFrame(museums_df, form.museum)
    /\ IF form.email # <<>> /\ form.phone # <<>>
       THEN LET booking_data == app_booking_data(username, form, now)
            IN  IF opens
                THEN /\ Writes < MaxWrites
                     /\ bookings_txt' = app_save_booking(bookings_txt, booking_data)
                     /\ user_bookings' = app_load_user_bookings(bookings_txt', username).value
                     /\ appended' = [appended EXCEPT !.bookings = Append(@, booking_data)]
                     /\ last' = BookDone(booking_data, TRUE, "Booking Confirmed!", FALSE)
                ELSE /\ UNCHANGED <<bookings_txt, user_bookings, appended>>
                     /\ last' = BookDone(JNull, FALSE,
                                         "Error saving booking. Please try again.", FALSE)
       ELSE /\ UNCHANGED <<bookings_txt, user_bookings, appended>>
            /\ last' = BookDone(JNull, FALSE, "Please fill in all required fields", FALSE)
    /\ UNCHANGED <<variant, users_txt, logged_in, username, latest_booking, museums_df, server, race, run,
                   now, codec>>

app_ConfirmBooking(form) == app_ConfirmBookingOnDisk(form, TRUE)

\* Book Ticket, Confirm Booking (p.py); with an empty museums table no
\* museum was selected and naming selected_museum raises NameError
\* on a disk where open('bookings.txt', 'a') raises, save_booking, which
\* has no try block, ends the run before latest_booking is set
p_ConfirmBookingOnDisk(form, opens) ==
    /\ variant = "p"
    /\ logged_in
    /\ IF museums_df = EmptyFrame
       THEN /\ UNCHANGED <<bookings_txt, latest_booking, appended>>
            /\ last' = BookDone(None, FALSE, "", TRUE)
       ELSE LET booking_data == p_booking_data(username, form, now)
            IN  /\ InFrame(museums_df, form.museum)
                /\ IF opens
                   THEN /\ Writes < MaxWrites
                        /\ bookings_txt' = p_save_booking(bookings_txt, booking_data)
                        /\ latest_booking' = <<booking_data>>
                        /\ appended' = [appended EXCEPT !.bookings = Append(@, booking_data)]
                        /\ last' = BookDone(booking_data, TRUE, "Booking Confirmed!", FALSE)
                   ELSE /\ UNCHANGED <<bookings_txt, latest_booking, appended>>
                        /\ last' = BookDone(None, FALSE, "", TRUE)
    /\ UNCHANGED <<variant, users_txt, logged_in, username, user_bookings, museums_df, server, race, run,
                   now, codec>>

p_ConfirmBooking(form) == p_ConfirmBookingOnDisk(form, TRUE)

ScanDone(u, scan, shown) ==
    [op |-> "my_bookings", u |-> u, scan |-> scan, shown |-> shown,
     raised |-> scan.raised]

\* My Bookings (app.py): the session's list is reloaded from the file
app_MyBookings ==
    /\ variant = "app"
    /\ logged_in
    /\ LET scan == app_load_user_bookings(bookings_txt, username)
       IN  /\ user_bookings' = scan.value
           /\ last' = ScanDone(username, scan, scan.value)
    /\ UNCHANGED <<variant, files, logged_in, username, latest_booking, museums_df, server, race, run,
                   now, appended, codec>>

\* My Bookings (p.py): all bookings are loaded and filtered on the username
p_MyBookings ==
    /\ variant = "p"
    /\ logged_in
    /\ LET scan == p_load_bookings(bookings_txt)
       IN  last' = ScanDone(username, scan, p_user_bookings(scan.value, username))
    /\ UNCHANGED <<variant, files, session, museums_df, server, race, run, now, appended, codec>>

\* a second passes
Tick ==
    /\ now < MaxClock
    /\ now' = now + 1
    /\ UNCHANGED <<variant, files, session, museums_df, server, race, run, last, appended, codec>>

Init ==
    /\ variant \in {"app", "p"}
    /\ users_txt = Missing
    /\ bookings_txt = Missing
    /\ logged_in = FALSE
    /\ username = IF variant = "app" THEN <<>> ELSE None
    /\ user_bookings = <<>>
    /\ latest_booking = <<>>
    /\ museums_df = Museums
    /\ race = <<>>
    /\ run = <<>>
    /\ server = <<>>
    /\ now = 0
    /\ last = [op |-> "start", raised |-> FALSE]
    /\ appended = [users |-> <<>>, bookings |-> <<>>]
    /\ codec = <<>>

Next ==
    \/ \E f \in LoginForms : app_Login(f.u, f.p)
    \/ \E f \in LoginForms : p_Login(f.u, f.p)
    \/ \E f \in SignupForms : app_SignUp(f.u, f.p, f.c)
    \/ \E f \in SignupForms : p_SignUp(f.u, f.email, f.p, f.c)
    \/ Logout
    \/ \E form \in BookingForms : app_ConfirmBooking(form)
    \/ \E form \in BookingForms : p_ConfirmBooking(form)
    \/ app_MyBookings
    \/ p_MyBookings
    \/ Tick

Spec == Init /\ [][Next]_vars

(***************************************************************************)
(* Reading the history and the files, whichever script runs.               *)
(***************************************************************************)
\* the accounts the file decodes to: username and stored hash of each item
UsersOf(file) ==
    IF variant = "app" THEN app_load_users(file).value
    ELSE LET users == p_load_users(file).value
         IN  [i \in 1..Len(users) |->
                 [key |-> users[i].key, val |-> users[i].val.password]]

\* the bookings scan filtered on username == u (My Bookings)
ScanBookings(file, u) ==
    IF variant = "app" THEN app_load_user_bookings(file, u).value
    ELSE p_user_bookings(p_load_bookings(file).value, u)

\* booking_data['username'] and booking_data['booking_id']
BookingUser(b) ==
    IF variant = "app" THEN DictGet(b.members, Key("username")).s ELSE b.username
BookingId(b) ==
    IF variant = "app" THEN DictGet(b.members, Key("booking_id")).s ELSE b.booking_id

RECURSIVE Count(_, _)
Count(seq, x) ==
    IF seq = <<>> THEN 0
    ELSE (IF Head(seq) = x THEN 1 ELSE 0) + Count(Tail(seq), x)

\* s can be had from t by leaving elements out, the order kept
RECURSIVE IsSubSeq(_, _)
IsSubSeq(s, t) ==
    IF s = <<>> THEN TRUE
    ELSE IF t = <<>> THEN FALSE
    ELSE IF Head(s) = Head(t) THEN IsSubSeq(Tail(s), Tail(t))
    ELSE IsSubSeq(s, Tail(t))

AppendedBy(u) ==
    SelectSeq(appended.bookings, LAMBDA b : BookingUser(b) = u)

(***************************************************************************)
(* C1: a login attempt with username u and password p authenticates (the   *)
(* session is logged in as u) if and only if the accounts store holds a    *)
(* record for u whose stored hash is hash_password(p), the records being   *)
(* those the registrations wrote.                                          *)
(***************************************************************************)
Registered(u, p) ==
    \E i \in 1..Len(appended.users) :
        /\ appended.users[i].username = u
        /\ hash_password(appended.users[i].password) = hash_password(p)

C1_LoginIffRecord ==
    last.op = "login" =>
        ((logged_in /\ username = last.u) <=> Registered(last.u, last.p))

(***************************************************************************)
(* C2: after a record is appended (save_user, save_booking), a scan for    *)
(* its key includes the record exactly once.                               *)
(***************************************************************************)
C2_AppendThenScan ==
    /\ (last.op = "signup" /\ last.saved) =>
           LET users == UsersOf(users_txt)
               r == Last(appended.users)
           IN  /\ DictHas(users, r.username)
               /\ DictGet(users, r.username) = hash_password(r.password)
    /\ (last.op = "book" /\ last.saved) =>
           LET r == Last(appended.bookings)
           IN  Count(ScanBookings(bookings_txt, BookingUser(r)), r) = 1

(***************************************************************************)
(* C3: the bookings scan filtered on username == u returns exactly the     *)
(* bookings appended with username u, field values unchanged, and no       *)
(* booking of another user.                                                *)
(***************************************************************************)
C3_ScanIsUsersBookings ==
    \A u \in Usernames : ScanBookings(bookings_txt, u) = AppendedBy(u)

(***************************************************************************)
(* C8: a scan returns its matches in file order, which is insertion order, *)
(* oldest first: load_bookings (p.py) and load_user_bookings (app.py)      *)
(* return a subsequence of the bookings in the order they were appended.   *)
(***************************************************************************)
C8_ScanInInsertionOrder ==
    /\ \A u \in Usernames : IsSubSeq(ScanBookings(bookings_txt, u), AppendedBy(u))
    /\ variant = "p" =>
           IsSubSeq(p_load_bookings(bookings_txt).value, appended.bookings)

\* a scan that returns two bookings made in different seconds
C8_Witness ==
    \E u \in Usernames :
        LET found == ScanBookings(bookings_txt, u)
        IN  /\ Len(found) >= 2
            /\ BookingId(found[1]) # BookingId(found[2])

(***************************************************************************)
(* C9: the store is append-only.  Every step leaves each file's earlier    *)
(* lines in place as a prefix of its later lines and never removes a file; *)
(* a step that calls save_user or save_booking adds exactly one line at    *)
(* the end of that file and leaves the other file alone; every other step  *)
(* leaves both files alone.                                                *)
(***************************************************************************)
GrowsOnly(file, file2) ==
    /\ file.exists => file2.exists
    /\ IsPrefix(file.lines, file2.lines)

OneLineMore(file, file2) ==
    /\ file2.exists
    /\ Len(file2.lines) = Len(file.lines) + 1
    /\ Front(file2.lines) = file.lines

C9_AppendOnly ==
    [][ /\ GrowsOnly(users_txt, users_txt')
        /\ GrowsOnly(bookings_txt, bookings_txt')
        /\ Len(appended'.users) # Len(appended.users) =>
               OneLineMore(users_txt, users_txt') /\ bookings_txt' = bookings_txt
        /\ Len(appended'.bookings) # Len(appended.bookings) =>
               OneLineMore(bookings_txt, bookings_txt') /\ users_txt' = users_txt
        /\ appended' = appended => UNCHANGED files ]_vars

\* both files hold lines, one of them two
C9_Witness ==
    /\ Len(users_txt.lines) >= 1
    /\ Len(bookings_txt.lines) >= 2

(***************************************************************************)
(* C10: with registrations run one at a time, the accounts store holds at  *)
(* most one record per username, and a registration whose username is      *)
(* already in the store appends nothing.                                   *)
(***************************************************************************)
C10_OneAccountPerUsername ==
    \A i, j \in 1..Len(appended.users) :
        i # j => appended.users[i].username # appended.users[j].username

(***************************************************************************)
(* The record codec on its own: a record is encoded to a line as the       *)
(* writers do and the line is decoded as the readers do.                   *)
(***************************************************************************)
\* field values: empty, plain, with leading, trailing and inner whitespace,
\* with each delimiter, with a quote and a backslash
FieldTexts ==
    { <<>>, <<"a">>, <<SP, "a">>, <<"a", SP>>, <<"a", SP, "b">>, <<"a", PIPE, "b">>,
      <<"a", COMMA, "b">>, <<QUOTE, "a", BACKSLASH>> }

PlainForm == CHOOSE f \in BookingForms : f.museum = AncientWorlds /\ f.email # <<>>

\* the records of each kind put through the codec
CodecRecords(kind) ==
    CASE kind = "app_account" ->
             { Account(u, "password123", None, None) : u \in FieldTexts }
      [] kind = "p_account" ->
             { Account(u, "password123", e, StampStr(0)) : u \in FieldTexts, e \in FieldTexts }
      [] kind = "p_booking" ->
             { [p_booking_data(u, PlainForm, 0) EXCEPT !.museum = m] :
                   u \in FieldTexts, m \in FieldTexts }
      [] kind = "app_booking" ->
             { app_booking_data(u, [PlainForm EXCEPT !.requests = r, !.people = n], 0) :
                   u \in FieldTexts, r \in FieldTexts, n \in {1, 50} }

CodecKinds == { "app_account", "p_account", "p_booking", "app_booking" }

\* the line the writer of the kind writes for the record
EncodeRecord(kind, r) ==
    CASE kind = "app_account" -> app_user_line(r.username, r.password)
      [] kind = "p_account" -> p_user_line(r.username, r.password, r.email, r.timestamp)
      [] kind = "p_booking" -> p_booking_line(r)
      [] kind = "app_booking" -> app_booking_line(r)

\* what the reader of the kind makes of the line: the records it yields
DecodeLine(kind, line) ==
    CASE kind = "app_account" -> app_users_of_line(<<>>, line)
      [] kind = "p_account" -> p_users_of_line(<<>>, line)
      [] kind = "p_booking" -> p_bookings_of_line(<<>>, line)
      [] kind = "app_booking" ->
             LET r == json_loads(Strip(line)) IN IF r.ok THEN <<r.val>> ELSE <<>>

\* the record as the reader of the kind presents it
AsRead(kind, r) ==
    CASE kind = "app_account" -> [key |-> r.username, val |-> hash_password(r.password)]
      [] kind = "p_account" ->
             [key |-> r.username,
              val |-> [password |-> hash_password(r.password), email |-> r.email,
                       timestamp |-> r.timestamp]]
      [] kind = "p_booking" -> r
      [] kind = "app_booking" -> r

\* the field values of the record that the line carries
FieldsOf(kind, r) ==
    CASE kind = "app_account" -> <<r.username, hash_password(r.password)>>
      [] kind = "p_account" -> <<r.username, hash_password(r.password), r.email, r.timestamp>>
      [] kind = "p_booking" ->
             <<r.booking_id, r.username, r.museum, r.date, r.time, r.people,
               r.tour_type, r.booking_date, r.status>>
      [] kind = "app_booking" -> << >>

DelimiterOf(kind) == IF kind = "app_account" THEN COMMA ELSE PIPE

\* no field value of the record contains the delimiter of its kind (a JSON
\* line has none); no token is a line break
DelimiterFree(kind, r) ==
    \A i \in 1..Len(FieldsOf(kind, r)) : ~Contains(FieldsOf(kind, r)[i], DelimiterOf(kind))

CodecInit ==
    /\ \E kind \in CodecKinds : \E r \in CodecRecords(kind) :
           codec = [stage |-> "record", kind |-> kind, record |-> r,
                    line |-> <<>>, decoded |-> <<>>]
    /\ variant = "app"
    /\ users_txt = Missing
    /\ bookings_txt = Missing
    /\ logged_in = FALSE
    /\ username = <<>>
    /\ user_bookings = <<>>
    /\ latest_booking = <<>>
    /\ museums_df = Museums
    /\ race = <<>>
    /\ run = <<>>
    /\ server = <<>>
    /\ now = 0
    /\ last = [op |-> "start", raised |-> FALSE]
    /\ appended = [users |-> <<>>, bookings |-> <<>>]

CodecEncode ==
    /\ codec.stage = "record"
    /\ codec' = [codec EXCEPT !.stage = "line",
                              !.line = EncodeRecord(codec.kind, codec.record)]
    /\ UNCHANGED <<variant, files, session, museums_df, server, race, run, now, last, appended>>

CodecDecode ==
    /\ codec.stage = "line"
    /\ codec' = [codec EXCEPT !.stage = "decoded",
                              !.decoded = DecodeLine(codec.kind, codec.line)]
    /\ UNCHANGED <<variant, files, session, museums_df, server, race, run, now, last, appended>>

CodecNext == CodecEncode \/ CodecDecode

SpecCodec == CodecInit /\ [][CodecNext]_vars

(***************************************************************************)
(* C4: round trip.  For every record whose field values contain no         *)
(* delimiter and no line break, decoding the line that encoding produced   *)
(* yields exactly that record.                                             *)
(***************************************************************************)
C4_RoundTrip ==
    (codec.stage = "decoded" /\ DelimiterFree(codec.kind, codec.record)) =>
        codec.decoded = <<AsRead(codec.kind, codec.record)>>

(***************************************************************************)
(* The store on its own: the readers and writers called on files of any    *)
(* content, well-formed lines and others, without the pages in front.      *)
(***************************************************************************)
MaxFileLines == 2

SeqsUpTo(S, n) == UNION { [1..k -> S] : k \in 0..n }

\* the account and the booking whose lines are the well-formed ones
StoreAccount(v) ==
    IF v = "app" THEN Account(Alice, "password123", None, None)
    ELSE Account(Alice, "password123", AliceMail, StampStr(0))

StoreBooking(v) ==
    IF v = "app" THEN app_booking_data(Alice, PlainForm, 0)
    ELSE p_booking_data(Alice, PlainForm, 0)

UserLine(v) ==
    EncodeRecord(IF v = "app" THEN "app_account" ELSE "p_account", StoreAccount(v))

BookingLine(v) ==
    EncodeRecord(IF v = "app" THEN "app_booking" ELSE "p_booking", StoreBooking(v))

\* lines users.txt may hold: the well-formed one, lines with fewer and with
\* more fields, a line of whitespace
StoreUserLines(v) ==
    IF v = "app"
    THEN { UserLine(v), <<"bob">>, <<"carol", COMMA, "sha256:pw", COMMA, "extra">>, <<SP>> }
    ELSE { UserLine(v),
           <<"bob", PIPE, "sha256:pw">>,
           <<"carol", PIPE, "sha256:pw", PIPE, "carol@example.com">>,
           <<"dave", PIPE, "sha256:pw", PIPE, "dave@example.com", PIPE>> \o StampStr(0)
               \o <<PIPE, "extra">> }

\* lines bookings.txt may hold: the well-formed one; for p.py one field
\* fewer and one more; for app.py a line that is not JSON and a JSON
\* number
StoreBookingLines(v) ==
    IF v = "app"
    THEN { BookingLine(v), <<"{", "oops">>, <<"5">> }
    ELSE LET b == StoreBooking(v)
         IN  { BookingLine(v),
               Join(<<b.booking_id, b.username, b.museum, b.date, b.time, b.people,
                      b.tour_type, b.booking_date>>, PIPE),
               BookingLine(v) \o <<PIPE, "extra">> }

StoreFiles(pool) == { Missing } \cup { File(ls) : ls \in SeqsUpTo(pool, MaxFileLines) }

StoreInit ==
    /\ variant \in { "app", "p" }
    /\ \/ users_txt \in StoreFiles(StoreUserLines(variant)) /\ bookings_txt = Missing
       \/ users_txt = Missing /\ bookings_txt \in StoreFiles(StoreBookingLines(variant))
    /\ logged_in = FALSE
    /\ username = <<>>
    /\ user_bookings = <<>>
    /\ latest_booking = <<>>
    /\ museums_df = Museums
    /\ race = <<>>
    /\ run = <<>>
    /\ server = <<>>
    /\ now = 0
    /\ last = [op |-> "start", raised |-> FALSE]
    /\ appended = [users |-> <<>>, bookings |-> <<>>]
    /\ codec = <<>>

\* what a call of a reader leaves behind for the properties: the file as it
\* was, the result, and the result of the same call made just before
Loaded(reader, key, file, result) ==
    LET repeat == last.op = "load" /\ last.reader = reader /\ last.key = key
    IN  [op |-> "load", reader |-> reader, key |-> key, existed |-> file.exists,
         read |-> file, before |-> files, result |-> result, repeat |-> repeat,
         previous |-> IF repeat THEN last.result ELSE result, raised |-> result.raised]

\* load_users()
StoreLoadUsers ==
    /\ last' = Loaded("load_users", <<>>, users_txt,
                      IF variant = "app" THEN app_load_users(users_txt)
                      ELSE p_load_users(users_txt))
    /\ UNCHANGED <<variant, files, session, museums_df, server, race, run, now, appended, codec>>

\* a reader that opens bookings.txt with mode 'w+' empties it
StoreLoadBookingsEmptying(u) ==
    /\ last' = IF variant = "app"
               THEN Loaded("load_bookings", u, bookings_txt,
                           app_load_user_bookings(bookings_txt, u))
               ELSE Loaded("load_bookings", <<>>, bookings_txt,
                           p_load_bookings(bookings_txt))
    /\ bookings_txt' = IF bookings_txt.exists THEN File(<<>>) ELSE bookings_txt
    /\ UNCHANGED <<variant, users_txt, session, museums_df, server, race, run, now, appended, codec>>

\* load_user_bookings(username) in app.py, load_bookings() in p.py
StoreLoadBookings(u) ==
    /\ last' = IF variant = "app"
               THEN Loaded("load_bookings", u, bookings_txt,
                           app_load_user_bookings(bookings_txt, u))
               ELSE Loaded("load_bookings", <<>>, bookings_txt,
                           p_load_bookings(bookings_txt))
    /\ UNCHANGED <<variant, files, session, museums_df, server, race, run, now, appended, codec>>

\* save_user(...)
StoreSaveUser ==
    /\ Len(users_txt.lines) < MaxFileLines
    /\ users_txt' = IF variant = "app"
                    THEN app_save_user(users_txt, Alice, "password123")
                    ELSE p_save_user(users_txt, Alice, "password123", AliceMail, StampStr(0))
    /\ last' = [op |-> "save", raised |-> FALSE]
    /\ UNCHANGED <<variant, bookings_txt, session, museums_df, server, race, run, now, appended, codec>>

\* save_booking(booking_data)
StoreSaveBooking ==
    /\ Len(bookings_txt.lines) < MaxFileLines
    /\ bookings_txt' = IF variant = "app"
                       THEN app_save_booking(bookings_txt, StoreBooking(variant))
                       ELSE p_save_booking(bookings_txt, StoreBooking(variant))
    /\ last' = [op |-> "save", raised |-> FALSE]
    /\ UNCHANGED <<variant, users_txt, session, museums_df, server, race, run, now, appended, codec>>

StoreNext ==
    \/ StoreLoadUsers
    \/ \E u \in Usernames : StoreLoadBookings(u)
    \/ StoreSaveUser
    \/ StoreSaveBooking

SpecStore == StoreInit /\ [][StoreNext]_vars

\* the number of fields the reader finds on a line
FieldCount(line, d) == Len(Split(Strip(line), d))

\* the delimiter and the number of fields of the record kind a reader reads
ReadDelimiter == IF variant = "app" THEN COMMA ELSE PIPE

KindFields(reader) ==
    IF reader = "load_bookings" THEN 9 ELSE IF variant = "app" THEN 2 ELSE 4

\* the fewest fields with which load_users takes a line
FewestFields == IF variant = "app" THEN 2 ELSE 3

WellFormedLine(reader) ==
    IF reader = "load_users" THEN UserLine(variant) ELSE BookingLine(variant)

\* what the reader returns for a file holding the well-formed line alone
WellFormedOnly(reader) ==
    IF reader = "load_users"
    THEN <<AsRead(IF variant = "app" THEN "app_account" ELSE "p_account",
                  StoreAccount(variant))>>
    ELSE <<StoreBooking(variant)>>

\* the last call was one of load_users (app.py, p.py) or load_bookings (p.py)
\* on a file of two lines, the well-formed one and the one at position j
ReadTwoLines(j) ==
    /\ last.op = "load"
    /\ last.reader = "load_bookings" => variant = "p"
    /\ Len(last.read.lines) = 2
    /\ j \in 1..2
    /\ last.read.lines[3 - j] = WellFormedLine(last.reader)

OtherFields(j) == FieldCount(last.read.lines[j], ReadDelimiter)

C6_MissingFileIsEmpty ==
    (last.op = "load" /\ ~last.existed) =>
        /\ last.result = Returned(<<>>)
        /\ last.reader = "load_users" => users_txt = Missing
        /\ last.reader = "load_bookings" => bookings_txt = Missing

C6_Witness ==
    /\ last.op = "load"
    /\ ~last.existed
    /\ last.result = Returned(<<>>)
    /\ users_txt = Missing
    /\ bookings_txt = Missing

(***************************************************************************)
(* C7: a scan leaves both files as they were, and a scan repeated with     *)
(* the same argument and no append in between returns what the first       *)
(* returned.                                                               *)
(***************************************************************************)
C7_IdempotentReads ==
    last.op = "load" =>
        /\ files = last.before
        /\ last.repeat => last.result = last.previous

C7_Witness ==
    /\ last.op = "load"
    /\ last.repeat
    /\ last.reader = "load_bookings"
    /\ Len(last.result.value) >= 1
    /\ last.result = last.previous
    /\ Len(bookings_txt.lines) = 2

(***************************************************************************)
(* Concurrent sessions.  Streamlit runs the script of every browser        *)
(* session in a thread of its own; the sessions share users.txt and        *)
(* bookings.txt and nothing else.  A handler that reads and then writes    *)
(* takes two steps here, and the steps of the sessions interleave.  The    *)
(* history of the writes is kept in race.hist.                             *)
(***************************************************************************)
MaxRaceWrites == 3     \* lines the sessions write to the two files together

Sessions == { 1, 2 }

Bob == <<"bob">>
BobMail == <<"bob@x.org">>
RaceUsers == { Alice, Bob }
MailOf(u) == IF u = Alice THEN AliceMail ELSE BobMail

\* the booking forms the sessions fill in
RaceForms == { PlainForm, [PlainForm EXCEPT !.people = 1] }

Idle ==
    [pc |-> "idle", logged_in |-> FALSE, username |-> <<>>, user_bookings |-> <<>>,
     latest_booking |-> None, pending |-> None]

RaceInit ==
    /\ variant \in { "app", "p" }
    /\ users_txt = Missing
    /\ bookings_txt = Missing
    /\ logged_in = FALSE
    /\ username = <<>>
    /\ user_bookings = <<>>
    /\ latest_booking = <<>>
    /\ museums_df = Museums
    /\ now = 0
    /\ last = [op |-> "start", raised |-> FALSE]
    /\ appended = [users |-> <<>>, bookings |-> <<>>]
    /\ codec = <<>>
    /\ race = [sess |-> [s \in Sessions |-> [Idle EXCEPT !.username =
                                               IF variant = "app" THEN <<>> ELSE None]],
               hist |-> <<>>]
    /\ run = <<>>
    /\ server = <<>>

RaceFrame == <<variant, session, museums_df, server, now, last, appended, codec, run>>

\* the writes under way: sessions between their read and their write
Pending == Cardinality({ s \in Sessions : race.sess[s].pc # "idle" })

Me(s) == race.sess[s]

RaceLoadUsers == IF variant = "app" THEN app_load_users(users_txt) ELSE p_load_users(users_txt)

\* Sign Up / Register up to the call of save_user: the fields are checked
\* against the accounts load_users() returns now
RaceSignUpCheck(s, u) ==
    /\ Me(s).pc = "idle"
    /\ ~Me(s).logged_in
    /\ LET users == RaceLoadUsers
           message == IF variant = "app"
                      THEN app_signup_message(users.value, u, "password123", "password123")
                      ELSE p_signup_message(users.value, u, MailOf(u), "password123",
                                            "password123")
           passed == message \in { "Account created successfully! Please login.",
                                   "Registration successful! Please login." }
       IN  /\ passed => Writes + Pending < MaxRaceWrites
           /\ race' = [race EXCEPT
                 !.sess[s] = IF passed
                             THEN [@ EXCEPT !.pc = "save_user",
                                            !.pending = [username |-> u,
                                                         seen |-> Len(users_txt.lines)]]
                             ELSE @]
    /\ UNCHANGED <<RaceFrame, files>>

\* save_user(...), the rest of Sign Up / Register
RaceSaveUser(s) ==
    /\ Me(s).pc = "save_user"
    /\ LET u == Me(s).pending.username
       IN  /\ users_txt' = IF variant = "app"
                           THEN app_save_user(users_txt, u, "password123")
                           ELSE p_save_user(users_txt, u, "password123", MailOf(u),
                                            StampStr(now))
           /\ race' = [race EXCEPT
                 !.sess[s] = [@ EXCEPT !.pc = "idle", !.pending = None],
                 !.hist = Append(@, [kind |-> "user", s |-> s, u |-> u,
                                     seen |-> Me(s).pending.seen,
                                     at |-> Len(users_txt.lines) + 1])]
    /\ UNCHANGED <<RaceFrame, bookings_txt>>

\* Login: reads only
RaceLogin(s, u) ==
    /\ Me(s).pc = "idle"
    /\ ~Me(s).logged_in
    /\ LET users == RaceLoadUsers
           ok == IF variant = "app" THEN app_credentials_ok(users.value, u, "password123")
                 ELSE p_credentials_ok(users.value, u, "password123")
       IN  race' = [race EXCEPT
               !.sess[s] = IF ok
                           THEN [@ EXCEPT !.logged_in = TRUE, !.username = u,
                                          !.user_bookings =
                                              IF variant = "app"
                                              THEN app_load_user_bookings(bookings_txt, u).value
                                              ELSE @]
                           ELSE @]
    /\ UNCHANGED <<RaceFrame, files>>

\* Confirm Booking up to the call of save_booking: the clock is read and
\* booking_data is built
RaceConfirm(s, form) ==
    /\ Me(s).pc = "idle"
    /\ Me(s).logged_in
    /\ Writes + Pending < MaxRaceWrites
    /\ race' = [race EXCEPT
          !.sess[s] = [@ EXCEPT !.pc = "save_booking",
                                !.pending =
                                    [data |-> IF variant = "app"
                                              THEN app_booking_data(Me(s).username, form, now)
                                              ELSE p_booking_data(Me(s).username, form, now),
                                     t |-> now]]]
    /\ UNCHANGED <<RaceFrame, files>>

\* the booking_id a reader finds in a line of bookings.txt
LineId(line) ==
    BookingId(DecodeLine(IF variant = "app" THEN "app_booking" ELSE "p_booking", line)[1])

\* save_booking(booking_data) and what follows it in the handler
RaceSaveBooking(s) ==
    /\ Me(s).pc = "save_booking"
    /\ LET booking_data == Me(s).pending.data
           saved == IF variant = "app"
                    THEN app_save_booking(bookings_txt, booking_data)
                    ELSE p_save_booking(bookings_txt, booking_data)
       IN  /\ bookings_txt' = saved
           /\ race' = [race EXCEPT
                 !.sess[s] = [@ EXCEPT
                     !.pc = "idle", !.pending = None,
                     !.user_bookings =
                         IF variant = "app"
                         THEN app_load_user_bookings(saved, Me(s).username).value
                         ELSE @,
                     !.latest_booking = IF variant = "p" THEN booking_data ELSE @],
                 !.hist = Append(@, [kind |-> "booking", s |-> s, u |-> Me(s).username,
                                     t |-> Me(s).pending.t,
                                     at |-> Len(saved.lines),
                                     id |-> BookingId(booking_data),
                                     written |-> LineId(saved.lines[Len(saved.lines)])])]
    /\ UNCHANGED <<RaceFrame, users_txt>>

\* a second passes
RaceTick ==
    /\ now < MaxClock
    /\ now' = now + 1
    /\ UNCHANGED <<variant, files, session, museums_df, server, last, appended, codec, race, run>>

RaceNext ==
    \/ \E s \in Sessions, u \in RaceUsers : RaceSignUpCheck(s, u)
    \/ \E s \in Sessions : RaceSaveUser(s)
    \/ \E s \in Sessions, u \in RaceUsers : RaceLogin(s, u)
    \/ \E s \in Sessions, form \in RaceForms : RaceConfirm(s, form)
    \/ \E s \in Sessions : RaceSaveBooking(s)
    \/ RaceTick

SpecRace == RaceInit /\ [][RaceNext]_vars

\* the writes of accounts and of bookings in race.hist, by position
IsWrite(i, kind) == i \in 1..Len(race.hist) /\ race.hist[i].kind = kind

\* the username of the account line that a write put into users.txt, and the
\* booking_id read in the line that a write put into bookings.txt
WrittenUser(i) == Split(Strip(users_txt.lines[race.hist[i].at]), ReadDelimiter)[1]

WrittenId(i) == race.hist[i].written

\* two sessions registered the same username and both lines are in users.txt
SameUsernameTwice(i, j) ==
    /\ IsWrite(i, "user") /\ IsWrite(j, "user")
    /\ i < j
    /\ race.hist[i].u = race.hist[j].u
    /\ WrittenUser(i) = race.hist[i].u
    /\ WrittenUser(j) = race.hist[j].u

(***************************************************************************)
(* C11: with two concurrent sessions the accounts file comes to hold two   *)
(* records with one username, and it does so exactly by the race: the two  *)
(* registrations are of different sessions and the pre-check (load_users)  *)
(* of the second to append read the file before the first appended, so     *)
(* both pre-checks came before either append.  Every account written is    *)
(* in the file under its username.                                         *)
(***************************************************************************)
C11_TwoRecordsByRace ==
    /\ \A i \in 1..Len(race.hist) :
           IsWrite(i, "user") => WrittenUser(i) = race.hist[i].u
    /\ \A i, j \in 1..Len(race.hist) :
           SameUsernameTwice(i, j) =>
               /\ race.hist[i].s # race.hist[j].s
               /\ race.hist[j].seen < race.hist[i].at
               /\ race.hist[i].seen < race.hist[i].at

C11_Witness ==
    \E i, j \in 1..Len(race.hist) :
        /\ SameUsernameTwice(i, j)
        /\ race.hist[i].seen = 0 /\ race.hist[j].seen = 0
        /\ Len(users_txt.lines) = 2
        /\ \A s \in Sessions : Me(s).pc = "idle"

ReadWellFormedAt(i) ==
    /\ last.op = "load"
    /\ i \in 1..Len(last.read.lines)
    /\ last.read.lines[i] = WellFormedLine(last.reader)
    /\ (last.reader = "load_bookings" /\ variant = "app") =>
           last.key = BookingUser(StoreBooking(variant))

(***************************************************************************)
(* C13: whatever the file holds, a reader returns normally and its result  *)
(* has the record of every well-formed line of the file, the lines before  *)
(* it being malformed or not; for load_user_bookings of app.py a malformed *)
(* line is one that is not JSON or one that is JSON but not an object.     *)
(***************************************************************************)
C13_MalformedNeverAborts ==
    /\ last.op = "load" => ~last.result.raised
    /\ \A i \in 1..MaxFileLines :
           ReadWellFormedAt(i) =>
               \E k \in 1..Len(last.result.value) :
                   last.result.value[k] = WellFormedOnly(last.reader)[1]

(***************************************************************************)
(* One run of the script, from the top to the footer: load_data(), the     *)
(* page picked in the sidebar with what the user did on it, the footer.    *)
(* A dataset is known by its columns and the number of its rows; the       *)
(* variant is "app", "p" or "new" (src/new.py, which has no login and no   *)
(* booking).                                                               *)
(***************************************************************************)
MuseumCols == { "Name", "City", "State", "Type", "Established", "Latitude", "Longitude" }
BookingCols == { "Date", "People", "Rating", "Attended", "Review", "Museum", "TourType" }
ForeignCols == { "Year", "Visitors", "District", "Month" }

\* a table: its columns, its rows, and how many rows have no coordinates
Frame(cols, rows, nan_coords) == [columns |-> cols, rows |-> rows, nan_coords |-> nan_coords]

\* pd.DataFrame()
NoData == Frame({}, 0, 0)

\* df.empty
df_empty(df) == df.rows = 0 \/ df.columns = {}

\* a CSV file as pd.read_csv finds it: unreadable (missing, zero bytes, not
\* UTF-8) or holding a table
Csv(readable, frame) == [readable |-> readable, frame |-> frame]
NoCsv == Csv(FALSE, NoData)

\* the shapes a CSV file is tried in: unreadable, whole, header only, and
\* whole but for one of the columns of lacking
CsvShapes(cols, lacking) ==
    { NoCsv, Csv(TRUE, Frame(cols, 1, 0)), Csv(TRUE, Frame(cols, 0, 0)) }
        \cup { Csv(TRUE, Frame(cols \ { c }, 1, 0)) : c \in lacking }

MuseumCsvs ==
    CsvShapes(MuseumCols, { "Name", "Type" })
        \cup { Csv(TRUE, Frame(MuseumCols, 1, 1)) }
BookingCsvs == CsvShapes(BookingCols, { "People", "Rating", "Attended" })
ForeignCsvs == CsvShapes(ForeignCols, { "Year", "Visitors" })

\* pd.read_csv(name, on_bad_lines='skip', encoding='utf-8')
read_csv(csv) == IF csv.readable THEN Returned(csv.frame) ELSE Raised(NoData)

\* pd.to_numeric of Latitude and Longitude, then dropna on the two
clean_museums(df) ==
    IF { "Latitude", "Longitude" } \subseteq df.columns
    THEN [df EXCEPT !.rows = @ - df.nan_coords, !.nan_coords = 0]
    ELSE df

Loaded3(m, b, f, shown_error) ==
    [museums_df |-> m, bookings_df |-> b, foreign_df |-> f, shown_error |-> shown_error,
     raised |-> FALSE]

\* a load_data with one try per file: a file that cannot be read leaves its
\* own table empty and the other two as read
load_data_per_file(museums_csv, bookings_csv, foreign_csv) ==
    LET m == read_csv(museums_csv)
        b == read_csv(bookings_csv)
        f == read_csv(foreign_csv)
    IN  Loaded3(IF m.raised THEN NoData ELSE clean_museums(m.value),
                IF b.raised THEN NoData ELSE b.value,
                IF f.raised THEN NoData ELSE f.value,
                m.raised \/ b.raised \/ f.raised)

\* load_data(): the three reads and the cleaning in one try; on any
\* exception st.error and three empty tables
load_data(museums_csv, bookings_csv, foreign_csv) ==
    LET m == read_csv(museums_csv)
        b == read_csv(bookings_csv)
        f == read_csv(foreign_csv)
    IN  IF m.raised \/ b.raised \/ f.raised
        THEN Loaded3(NoData, NoData, NoData, TRUE)
        ELSE Loaded3(clean_museums(m.value), b.value, f.value, FALSE)

\* df[c] for every c of cols: KeyError when df lacks one (plotly raises
\* ValueError for a column it is told to plot and does not find)
Has(df, cols) == cols \subseteq df.columns

\* what a page needs of the script so far: the name of the part and whether
\* it goes through
Part(name, passes) == [part |-> name, passes |-> passes]

\* the first part of a page that raises, "" when all go through
RECURSIVE FirstFailure(_)
FirstFailure(parts) ==
    IF parts = <<>> THEN ""
    ELSE IF ~Head(parts).passes THEN Head(parts).part
    ELSE FirstFailure(Tail(parts))

MapCols == { "Latitude", "Longitude", "Name", "City", "State", "Type" }
CardCols == { "Name", "City", "State", "Type", "Established" }

\* the rows the loops over the museums show: iterrows() of the table
Rows(df) == df.rows > 0

\* app.py, Home
app_Home(d, in) ==
    FirstFailure(<< Part("map", ~df_empty(d.museums_df) => Has(d.museums_df, MapCols)) >>)

\* app.py, Book Museum up to the button
app_BookMuseum(d, in) ==
    FirstFailure(<<
        Part("form", ~df_empty(d.museums_df) =>
                         Has(d.museums_df, { "State", "Name", "City", "Type" })),
        Part("map", ~df_empty(d.museums_df) =>
                        Has(d.museums_df, { "Latitude", "Longitude", "Name" })) >>)

\* app.py, Platform Statistics
app_Statistics(d, in) ==
    FirstFailure(<<
        Part("metrics", (~df_empty(d.foreign_df) /\ Has(d.foreign_df, { "Visitors" })) =>
                            Has(d.foreign_df, { "Year" })),
        Part("tabs", (~df_empty(d.foreign_df) /\ Has(d.foreign_df, { "District" })) =>
                         Has(d.foreign_df, { "Year", "Visitors" })),
        Part("tabs", (~df_empty(d.foreign_df) /\ Has(d.foreign_df, { "Month" })) =>
                         Has(d.foreign_df, { "Year", "Visitors" })),
        Part("tabs", ~df_empty(d.museums_df) => Has(d.museums_df, MapCols)) >>)

\* Gallery of app.py; search is what is typed in "Search museums"
app_Gallery(d, in) ==
    FirstFailure(<<
        Part("search", in.search => Has(d.museums_df, { "Name", "City" })),
        Part("cards", Rows(d.museums_df) => Has(d.museums_df, CardCols)) >>)

\* app.py, Museum Maps
app_Maps(d, in) ==
    FirstFailure(<<
        Part("map", ~df_empty(d.museums_df) =>
                        Has(d.museums_df, MapCols \cup { "Established" })),
        Part("search", in.search => Has(d.museums_df, { "Name" })),
        Part("directory", Rows(d.museums_df) =>
                              Has(d.museums_df, CardCols \cup { "Latitude", "Longitude" })) >>)

\* p.py, Home
p_Home(d, in) ==
    FirstFailure(<<
        Part("totals", ~df_empty(d.foreign_df) => Has(d.foreign_df, { "Visitors" })),
        Part("totals", ~df_empty(d.bookings_df) => Has(d.bookings_df, { "People" })),
        Part("charts", ~df_empty(d.museums_df) => Has(d.museums_df, { "Type", "State" })),
        Part("charts", (~df_empty(d.foreign_df) /\ Has(d.foreign_df, { "Year" })) =>
                           Has(d.foreign_df, { "Visitors" })) >>)

\* p.py, Platform Statistics
p_Statistics(d, in) ==
    FirstFailure(<<
        Part("filters", ~df_empty(d.museums_df) => Has(d.museums_df, { "State", "Type" })),
        Part("metrics", ~df_empty(d.foreign_df) => Has(d.foreign_df, { "Year", "Visitors" })) >>)

\* p.py, Gallery
p_Gallery(d, in) ==
    FirstFailure(<<
        Part("filters", ~df_empty(d.museums_df) => Has(d.museums_df, { "Type" })),
        Part("search", in.search => Has(d.museums_df, { "Name", "City" })),
        Part("cards", Rows(d.museums_df) => Has(d.museums_df, CardCols)) >>)

\* p.py, Museum Maps
p_Maps(d, in) ==
    FirstFailure(<<
        Part("map", ~df_empty(d.museums_df) =>
                        Has(d.museums_df, MapCols \cup { "Established" })),
        Part("search", in.search => Has(d.museums_df, { "Name" })),
        Part("directory", Rows(d.museums_df) => Has(d.museums_df, CardCols)) >>)

\* p.py, Book Ticket up to the button
p_BookTicket(d, in) ==
    FirstFailure(<<
        Part("form", ~df_empty(d.museums_df) =>
                         Has(d.museums_df, { "Name", "City", "State", "Type" })) >>)

\* Viewer Page of p.py and new.py
Viewer(d, in) ==
    FirstFailure(<<
        Part("viewer", ~df_empty(d.museums_df) => Has(d.museums_df, CardCols)) >>)

\* new.py, Home
new_Home(d, in) ==
    FirstFailure(<<
        Part("totals", ~df_empty(d.foreign_df) => Has(d.foreign_df, { "Visitors" })),
        Part("totals", ~df_empty(d.bookings_df) => Has(d.bookings_df, { "People" })),
        Part("charts", ~df_empty(d.museums_df) => Has(d.museums_df, { "Type", "State" })),
        Part("charts", (~df_empty(d.foreign_df) /\ Has(d.foreign_df, { "Year" })) =>
                           Has(d.foreign_df, { "Visitors" })),
        Part("map", ~df_empty(d.museums_df) => Has(d.museums_df, MapCols)) >>)

\* new.py, Platform Statistics
new_Statistics(d, in) ==
    FirstFailure(<<
        Part("filters", ~df_empty(d.museums_df) => Has(d.museums_df, { "State", "Type" })),
        Part("metrics", ~df_empty(d.foreign_df) => Has(d.foreign_df, { "Year", "Visitors" })),
        Part("tabs", ~df_empty(d.foreign_df) =>
                         Has(d.foreign_df, { "Year", "District", "Visitors" })),
        Part("tabs", ~df_empty(d.museums_df) => Has(d.museums_df, MapCols)),
        Part("tabs", Has(d.museums_df, { "City", "State" })),
        Part("tabs", ~df_empty(d.museums_df) => Has(d.museums_df, { "Type" })) >>)

\* new.py, Gallery
new_Gallery(d, in) ==
    FirstFailure(<<
        Part("filters", (~df_empty(d.museums_df)
                         /\ (df_empty(d.bookings_df) \/ ~Has(d.bookings_df, { "Museum" }))) =>
                            Has(d.museums_df, { "Name" })),
        Part("filters", ~df_empty(d.museums_df) => Has(d.museums_df, { "Type" })),
        Part("search", in.search => Has(d.museums_df, { "Name", "City" })),
        Part("cards", Rows(d.museums_df) => Has(d.museums_df, CardCols)) >>)

\* new.py, Museum Maps with its Regional Analysis and density heatmap
new_Maps(d, in) ==
    FirstFailure(<<
        Part("map", ~df_empty(d.museums_df) =>
                        Has(d.museums_df, MapCols \cup { "Established" })),
        Part("search", in.search => Has(d.museums_df, { "Name" })),
        Part("directory", Rows(d.museums_df) =>
                              Has(d.museums_df, CardCols \cup { "Latitude", "Longitude" })),
        Part("regional", Has(d.museums_df, { "City", "State" })),
        Part("heatmap", Has(d.museums_df, { "Latitude", "Longitude" })) >>)

\* st.sidebar.radio: the pages of each script
Pages(v) ==
    CASE v = "app" -> { "Home", "Book Museum", "My Bookings", "Platform Statistics",
                        "Gallery", "Museum Maps" }
      [] v = "p" -> { "Home", "Platform Statistics", "Gallery", "Museum Maps",
                      "Book Ticket", "My Bookings", "Viewer Page" }
      [] v = "new" -> { "Home", "Platform Statistics", "Gallery", "Museum Maps",
                        "Viewer Page" }

\* the page as far as the datasets go: the part that raises, or ""
RenderPage(v, page, d, in) ==
    CASE page = "Home" ->
             IF v = "app" THEN app_Home(d, in)
             ELSE IF v = "p" THEN p_Home(d, in) ELSE new_Home(d, in)
      [] page = "Platform Statistics" ->
             IF v = "app" THEN app_Statistics(d, in)
             ELSE IF v = "p" THEN p_Statistics(d, in) ELSE new_Statistics(d, in)
      [] page = "Gallery" ->
             IF v = "app" THEN app_Gallery(d, in)
             ELSE IF v = "p" THEN p_Gallery(d, in) ELSE new_Gallery(d, in)
      [] page = "Museum Maps" ->
             IF v = "app" THEN app_Maps(d, in)
             ELSE IF v = "p" THEN p_Maps(d, in) ELSE new_Maps(d, in)
      [] page = "Viewer Page" -> Viewer(d, in)
      [] page = "Book Museum" -> app_BookMuseum(d, in)
      [] page = "Book Ticket" -> p_BookTicket(d, in)
      [] page = "My Bookings" -> ""

(***************************************************************************)
(* One run of a script from its first line to its footer: "app" and "p"    *)
(* as before, "new" for src/new.py, which has no accounts.                 *)
(***************************************************************************)
NoInput == [search |-> FALSE, press |-> FALSE]

\* what is typed or pressed during the run: a search text on the pages that
\* have a search box, Confirm Booking on the booking pages
Inputs(page) ==
    { NoInput }
        \cup (IF page \in { "Gallery", "Museum Maps" }
              THEN { [search |-> TRUE, press |-> FALSE] } ELSE {})
        \cup (IF page \in { "Book Museum", "Book Ticket" }
              THEN { [search |-> FALSE, press |-> TRUE] } ELSE {})

NotLoaded == Loaded3(NoData, NoData, NoData, FALSE)

RunAt(pc, r, data, page, in, failed) ==
    [pc |-> pc, museums_csv |-> r.museums_csv, bookings_csv |-> r.bookings_csv,
     foreign_csv |-> r.foreign_csv, data |-> data, page |-> page, in |-> in,
     failed |-> failed]

RunInit ==
    /\ variant \in { "app", "p", "new" }
    /\ users_txt \in { Missing, File(<< UserLine(variant) >>) }
    /\ bookings_txt \in { Missing, File(<<>>) }
    /\ logged_in \in (IF variant = "new" THEN { FALSE } ELSE BOOLEAN)
    /\ username = IF logged_in THEN Alice ELSE IF variant = "app" THEN <<>> ELSE None
    /\ user_bookings = <<>>
    /\ latest_booking = <<>>
    /\ museums_df = Museums
    /\ race = <<>>
    /\ server = <<>>
    /\ \E m \in MuseumCsvs, b \in BookingCsvs, f \in ForeignCsvs :
           run = RunAt("start", [museums_csv |-> m, bookings_csv |-> b, foreign_csv |-> f],
                       NotLoaded, "", NoInput, "")
    /\ now = 0
    /\ last = [op |-> "start", raised |-> FALSE]
    /\ appended = [users |-> <<>>, bookings |-> <<>>]
    /\ codec = <<>>

RunFrame == <<variant, users_txt, logged_in, username, museums_df, server, now, last, codec, race>>

\* the script asks for the datasets: new.py at its top, app.py and p.py once
\* somebody is logged in
RunLoad ==
    /\ run.pc = "start"
    /\ variant = "new" \/ logged_in
    /\ run' = RunAt("loaded", run,
                    load_data(run.museums_csv, run.bookings_csv, run.foreign_csv),
                    "", NoInput, "")
    /\ UNCHANGED <<RunFrame, bookings_txt, user_bookings, latest_booking, appended>>

\* nobody is logged in: app.py and p.py show the Login / Sign Up page and
\* nothing else of the body
RunLoginPage ==
    /\ run.pc = "start"
    /\ variant # "new" /\ ~logged_in
    /\ run' = RunAt("body", run, run.data, "Login", NoInput, "")
    /\ UNCHANGED <<RunFrame, bookings_txt, user_bookings, latest_booking, appended>>

\* My Bookings reads the store (new.py has no such page)
MyBookingsFails ==
    IF variant = "app" THEN app_load_user_bookings(bookings_txt, username).raised
    ELSE p_load_bookings(bookings_txt).raised

\* the page picked in the sidebar, with what is typed or pressed on it
RunPage(page, in) ==
    /\ run.pc = "loaded"
    /\ page \in Pages(variant)
    /\ in \in Inputs(page)
    /\ LET failed == IF page = "My Bookings" /\ MyBookingsFails THEN "bookings"
                     ELSE RenderPage(variant, page, run.data, in)
           \* Confirm Booking of p.py names selected_museum, which is bound
           \* only when the museums table is not empty
           unbound == variant = "p" /\ in.press /\ df_empty(run.data.museums_df)
           \* the form and its button are there
           books == in.press /\ failed = "" /\ ~df_empty(run.data.museums_df)
           booking_data == IF variant = "app" THEN app_booking_data(username, PlainForm, now)
                           ELSE p_booking_data(username, PlainForm, now)
       IN  /\ run' = RunAt(IF failed # "" \/ unbound THEN "raised" ELSE "body", run,
                           run.data, page, in,
                           IF failed # "" THEN failed
                           ELSE IF unbound THEN "confirm" ELSE "")
           /\ IF books
              THEN /\ bookings_txt' = IF variant = "app"
                                      THEN app_save_booking(bookings_txt, booking_data)
                                      ELSE p_save_booking(bookings_txt, booking_data)
                   /\ appended' = [appended EXCEPT !.bookings = Append(@, booking_data)]
                   /\ user_bookings' =
                          IF variant = "app"
                          THEN app_load_user_bookings(bookings_txt', username).value
                          ELSE user_bookings
                   /\ latest_booking' = IF variant = "p" THEN <<booking_data>>
                                        ELSE latest_booking
              ELSE /\ UNCHANGED <<bookings_txt, appended, latest_booking>>
                   /\ user_bookings' =
                          IF variant = "app" /\ page = "My Bookings"
                          THEN app_load_user_bookings(bookings_txt, username).value
                          ELSE user_bookings
    /\ UNCHANGED RunFrame

\* the footer: p.py reads the three CSV files again, outside any try;
\* app.py and new.py count the rows of the datasets they hold
RunFooter ==
    /\ run.pc = "body"
    /\ variant = "app" => logged_in
    /\ LET reads == read_csv(run.museums_csv).raised \/ read_csv(run.bookings_csv).raised
                        \/ read_csv(run.foreign_csv).raised
       IN  run' = IF variant = "p" /\ reads
                  THEN [run EXCEPT !.pc = "raised", !.failed = "footer"]
                  ELSE [run EXCEPT !.pc = "done"]
    /\ UNCHANGED <<RunFrame, bookings_txt, user_bookings, latest_booking, appended>>

\* app.py has its footer inside the logged-in branch: the login page is the
\* end of the run
RunEnd ==
    /\ run.pc = "body"
    /\ variant = "app" /\ ~logged_in
    /\ run' = [run EXCEPT !.pc = "done"]
    /\ UNCHANGED <<RunFrame, bookings_txt, user_bookings, latest_booking, appended>>

RunNext ==
    \/ RunLoad
    \/ RunLoginPage
    \/ \E page \in Pages(variant) : \E in \in Inputs(page) : RunPage(page, in)
    \/ RunFooter
    \/ RunEnd

SpecRun == RunInit /\ [][RunNext]_vars

(***************************************************************************)
(* The run: what load_data hands to the pages.                             *)
(***************************************************************************)
\* load_data has been called in this run
DataLoaded == run.pc # "start" /\ run.page # "Login"

Unreadable(r) ==
    ~r.museums_csv.readable \/ ~r.bookings_csv.readable \/ ~r.foreign_csv.readable

AllEmpty(d) == d.museums_df = NoData /\ d.bookings_df = NoData /\ d.foreign_df = NoData

\* C14: when reading any of the three CSV files raises, load_data shows an
\* error and returns three empty datasets, never some loaded and some
\* empty, and the exception does not leave load_data; without an exception
\* no error is shown
C14_LoadAllOrNothing ==
    DataLoaded =>
        /\ ~run.data.raised
        /\ Unreadable(run) <=> run.data.shown_error
        /\ run.data.shown_error => AllEmpty(run.data)

\* load_data ran with the museums file unreadable and the other two whole
C14_Witness ==
    /\ DataLoaded
    /\ ~run.museums_csv.readable
    /\ run.bookings_csv = Csv(TRUE, Frame(BookingCols, 1, 0))
    /\ run.foreign_csv = Csv(TRUE, Frame(ForeignCols, 1, 0))
    /\ AllEmpty(run.data)

\* C15: in every script, on every page and with every interaction on it,
\* when a CSV file cannot be read (empty datasets are substituted) or a
\* store file is missing, the run gets through its footer: no exception
\* leaves the script
C15_RunCompletes ==
    (Unreadable(run) \/ ~users_txt.exists \/ ~bookings_txt.exists) => run.pc # "raised"

\* C20: on Platform Statistics a dataset that is empty or lacks a column a
\* metric needs makes the metric show "N/A" or zero; no part of the page
\* raises and the page renders
C20_StatisticsDegrade ==
    run.page = "Platform Statistics" => run.failed \notin { "filters", "metrics", "tabs" }

(***************************************************************************)
(* Login.                                                                  *)
(***************************************************************************)
\* C16: a login attempt, accepted or rejected, leaves users.txt and
\* bookings.txt as they were, and a rejected attempt leaves logged_in,
\* username and user_bookings as they were
C16_LoginOnlyReads ==
    [][last'.op = "login" =>
           /\ users_txt' = users_txt
           /\ bookings_txt' = bookings_txt
           /\ ~last'.authenticated => UNCHANGED <<logged_in, username, user_bookings>>]_vars

\* alice is registered and a login with a wrong password was just rejected
C16_Witness ==
    /\ last.op = "login"
    /\ last.u = Alice /\ last.p = "wrongpass"
    /\ ~last.authenticated
    /\ DictHas(UsersOf(users_txt), Alice)
    /\ ~logged_in

(***************************************************************************)
(* What a booking line holds.                                              *)
(***************************************************************************)
\* the keys app.py gives to identifier, username, museum reference, date,
\* time, party size and tour type
AppBookingKeys ==
    { "booking_id", "username", "museum_name", "date", "time", "num_people", "tour_type" }

\* a line of bookings.txt as app.py writes it holds a JSON object with the
\* keys named
AppLineHas(line, keys) ==
    LET r == json_loads(line)
    IN  r.ok /\ r.val.kind = "obj" /\ \A k \in keys : DictHas(r.val.members, Key(k))

\* a line of bookings.txt as p.py writes it: the seven fields, the booking
\* date and the status last
PLineHasAll(line) ==
    LET parts == Split(line, PIPE)
    IN  Len(parts) >= 9 /\ parts[Len(parts)] = <<"Confirmed">>

\* C17: every booking line in bookings.txt, JSON in app.py and
\* pipe-delimited in p.py, includes an identifier, the username, a museum
\* reference, the date, the time, the party size, the tour type and a status
C17_BookingFields ==
    \A i \in 1..Len(bookings_txt.lines) :
        IF variant = "app"
        THEN AppLineHas(bookings_txt.lines[i], AppBookingKeys \cup { "status" })
        ELSE PLineHasAll(bookings_txt.lines[i])

(***************************************************************************)
(* The booking_id.                                                         *)
(***************************************************************************)
\* the digits after "BK" in the booking_id a write put into bookings.txt
IdDigits(i) == WrittenId(i)[2]

\* C18: a booking_id is "BK" and then the 14 digits YYYYMMDDHHMMSS of the
\* clock second at which the booking was confirmed, whatever the username
\* and the form; two confirmations get distinct booking_ids if and only if
\* they happen at different clock seconds
C18_IdIsClockSecond ==
    /\ \A i \in 1..Len(race.hist) :
           IsWrite(i, "booking") =>
               /\ Len(WrittenId(i)) = 2
               /\ WrittenId(i)[1] = "BK"
               /\ Len(IdDigits(i)) = 14
               /\ <<IdDigits(i)>> = StampCompact(race.hist[i].t)
    /\ \A i, j \in 1..Len(race.hist) :
           IsWrite(i, "booking") /\ IsWrite(j, "booking") =>
               (WrittenId(i) # WrittenId(j) <=> race.hist[i].t # race.hist[j].t)

\* one user confirmed two bookings a second apart and the two lines carry
\* different booking_ids
C18_Witness ==
    \E i, j \in 1..Len(race.hist) :
        /\ IsWrite(i, "booking") /\ IsWrite(j, "booking")
        /\ race.hist[i].u = race.hist[j].u
        /\ race.hist[i].t = 0 /\ race.hist[j].t = 1
        /\ WrittenId(i) = <<"BK", "20250301120000">>
        /\ WrittenId(j) = <<"BK", "20250301120001">>

(***************************************************************************)
(* What an account line holds.                                             *)
(***************************************************************************)
\* the fields of the i-th line of users.txt, split as the readers split it
AccountFields(i) ==
    Split(Strip(users_txt.lines[i]), IF variant = "app" THEN COMMA ELSE PIPE)

\* C19: the second field of every account line that registration appended
\* is hash_password of the password that was typed, and no field of the
\* line is the password itself
C19_HashIsSecondField ==
    \A i \in 1..Len(users_txt.lines) :
        /\ Len(AccountFields(i)) >= 2
        /\ AccountFields(i)[2] = hash_password(appended.users[i].password)
        /\ \A k \in 1..Len(AccountFields(i)) :
               AccountFields(i)[k] # <<appended.users[i].password>>

(***************************************************************************)
(* The server process: load_data under @st.cache_data.  The decorator      *)
(* keeps the value load_data returned; with no ttl and no max_entries the  *)
(* entry stays for the life of the process and is shared by the sessions.  *)
(***************************************************************************)
MaxCsvChanges == 2     \* times a CSV file is replaced on disk
MaxLoads == 2          \* executions of the body of load_data

\* the cache before the first call
Miss == [museums_df |-> NoData, bookings_df |-> NoData, foreign_df |-> NoData,
         shown_error |-> FALSE, raised |-> TRUE]

\* a CSV file on disk: unreadable or whole
DiskCsvs(cols) == { NoCsv, Csv(TRUE, Frame(cols, 1, 0)) }

\* a cached load_data that runs its body again after a caught failure --
\* not what st.cache_data does
cache_data_retrying(memo, csv) ==
    IF memo = Miss \/ memo.shown_error
    THEN [value |-> load_data(csv.museums, csv.bookings, csv.foreign), ran |-> TRUE]
    ELSE [value |-> memo, ran |-> FALSE]

\* @st.cache_data on load_data(): the body runs on a miss and its return
\* value is stored; a hit hands the stored value back
cache_data(memo, csv) ==
    IF memo = Miss
    THEN [value |-> load_data(csv.museums, csv.bookings, csv.foreign), ran |-> TRUE]
    ELSE [value |-> memo, ran |-> FALSE]

NotCalled == [called |-> FALSE, result |-> Miss, csv |-> <<>>]

CacheInit ==
    /\ variant \in { "app", "p", "new" }
    /\ users_txt = Missing
    /\ bookings_txt = Missing
    /\ logged_in = FALSE
    /\ username = <<>>
    /\ user_bookings = <<>>
    /\ latest_booking = <<>>
    /\ museums_df = Museums
    /\ race = <<>>
    /\ run = <<>>
    /\ \E m \in DiskCsvs(MuseumCols), b \in DiskCsvs(BookingCols), f \in DiskCsvs(ForeignCols) :
           server = [csv |-> [museums |-> m, bookings |-> b, foreign |-> f],
                     memo |-> Miss, loads |-> 0, changes |-> 0,
                     got |-> [s \in Sessions |-> NotCalled]]
    /\ now = 0
    /\ last = [op |-> "start", raised |-> FALSE]
    /\ appended = [users |-> <<>>, bookings |-> <<>>]
    /\ codec = <<>>

CacheFrame == <<variant, files, session, museums_df, now, last, appended, codec, race, run>>

\* a script run of session s reaches `load_data()`
CacheCall(s) ==
    /\ LET r == cache_data(server.memo, server.csv)
       IN  /\ r.ran => server.loads < MaxLoads
           /\ server' = [server EXCEPT
                  !.memo = r.value,
                  !.loads = IF r.ran THEN @ + 1 ELSE @,
                  !.got[s] = [called |-> TRUE, result |-> r.value, csv |-> server.csv]]
    /\ UNCHANGED CacheFrame

\* somebody puts a CSV file in place, or removes it
CsvChange(name, shape) ==
    /\ server.changes < MaxCsvChanges
    /\ server.csv[name] # shape
    /\ server' = [server EXCEPT !.csv[name] = shape, !.changes = @ + 1]
    /\ UNCHANGED CacheFrame

CacheNext ==
    \/ \E s \in Sessions : CacheCall(s)
    \/ \E m \in DiskCsvs(MuseumCols) : CsvChange("museums", m)
    \/ \E b \in DiskCsvs(BookingCols) : CsvChange("bookings", b)
    \/ \E f \in DiskCsvs(ForeignCols) : CsvChange("foreign", f)

SpecCache == CacheInit /\ [][CacheNext]_vars

AllReadable(csv) == csv.museums.readable /\ csv.bookings.readable /\ csv.foreign.readable

\* C21: once load_data has returned in a server process, with datasets or
\* with the empty fallback, every later call in any session gets that same
\* result and the CSV files are not read again, whatever has become of the
\* files since
C21_MemoizedNeverRetried ==
    [][server.memo # Miss =>
           /\ server'.memo = server.memo
           /\ server'.loads = server.loads
           /\ \A s \in Sessions :
                  server'.got[s] # server.got[s] => server'.got[s].result = server.memo]_vars

\* the first load failed; the files then became readable, and a call of the
\* other session made after that still got the three empty datasets
C21_Witness ==
    /\ server.got[1].called /\ ~AllReadable(server.got[1].csv)
    /\ server.got[2].called /\ AllReadable(server.got[2].csv)
    /\ server.got[2].result.shown_error
    /\ AllEmpty(server.got[2].result)
    /\ server.loads = 1

(***************************************************************************)
(* Registrations and the accounts of others.                               *)
(***************************************************************************)
\* login (v, p) authenticates against the accounts file as it is
Authenticates(file, v, p) ==
    DictHas(UsersOf(file), v) /\ DictGet(UsersOf(file), v) = hash_password(p)

\* the step is an accepted registration: its line was appended
AcceptedSignUp ==
    /\ last'.op = "signup" /\ last'.saved
    /\ Len(users_txt'.lines) = Len(users_txt.lines) + 1

\* C22: an accepted registration under username u does not change, for any
\* registered username v other than u and any password p, whether login
\* (v, p) authenticates
C22_NoInterference ==
    [][AcceptedSignUp =>
           \A v \in Usernames :
               (v # last'.u /\ DictHas(UsersOf(users_txt), v)) =>
                   (Authenticates(users_txt, v, "password123")
                        <=> Authenticates(users_txt', v, "password123"))]_vars

(***************************************************************************)
(* The session.                                                            *)
(***************************************************************************)
\* st.session_state.username as the script initialises and resets it
NoUsername == IF variant = "app" THEN <<>> ELSE None

\* C23: while logged_in is true the session username has a record in the
\* accounts file and is the name a login of this session authenticated;
\* while logged_in is false the username is empty ("" in app.py, None in
\* p.py); only a successful login sets logged_in and only Logout clears it
C23_SessionInvariant ==
    /\ [](IF logged_in
          THEN username # NoUsername /\ DictHas(UsersOf(users_txt), username)
          ELSE username = NoUsername)
    /\ [][/\ (~logged_in /\ logged_in') =>
                 (last'.op = "login" /\ last'.authenticated /\ last'.u = username')
          /\ (logged_in /\ logged_in') => username' = username
          /\ (logged_in /\ ~logged_in') => last'.op = "logout"]_vars

\* alice logged in, booked, logged out and logged in again
C23_Witness ==
    /\ logged_in /\ username = Alice
    /\ last.op = "login" /\ last.authenticated
    /\ Len(bookings_txt.lines) = 1

\* the bookings the session holds are of the user u
SessionBookingsOf(u) ==
    /\ latest_booking # <<>> => latest_booking[1].username = u
    /\ \A i \in 1..Len(user_bookings) : JGetIs(user_bookings[i], Key("username"), u)

\* C24: after Logout the session holds no booking data (user_bookings,
\* latest_booking), and after a later login of another user the session
\* holds no booking of the user before, so no page shows one
C24_LogoutResets ==
    IF logged_in THEN SessionBookingsOf(username)
    ELSE user_bookings = <<>> /\ latest_booking = <<>>

(***************************************************************************)
(* Login against an accounts file that holds several records of one        *)
(* username (as concurrent registrations leave it).                        *)
(***************************************************************************)
DupPasswords == { "password123", "secret99" }

\* the line save_user writes for username u and password p
DupLine(v, u, p) ==
    IF v = "app" THEN app_user_line(u, p)
    ELSE p_user_line(u, p, MailOf(u), StampStr(0))

DupUserLines(v) ==
    { DupLine(v, Alice, p) : p \in DupPasswords } \cup { DupLine(v, Bob, "password123") }

DupInit ==
    /\ variant \in { "app", "p" }
    /\ users_txt \in StoreFiles(DupUserLines(variant))
    /\ bookings_txt = Missing
    /\ logged_in = FALSE
    /\ username = NoUsername
    /\ user_bookings = <<>>
    /\ latest_booking = <<>>
    /\ museums_df = Museums
    /\ race = <<>>
    /\ run = <<>>
    /\ server = <<>>
    /\ now = 0
    /\ last = [op |-> "start", raised |-> FALSE]
    /\ appended = [users |-> <<>>, bookings |-> <<>>]
    /\ codec = <<>>

DupNext ==
    \/ \E u \in RaceUsers, p \in DupPasswords : app_Login(u, p)
    \/ \E u \in RaceUsers, p \in DupPasswords : p_Login(u, p)
    \/ Logout

SpecDup == DupInit /\ [][DupNext]_vars

\* the lines of users.txt whose username field is u, by position
RecordsOf(u) ==
    { i \in 1..Len(users_txt.lines) : AccountFields(i)[1] = u }

LastOf(S) == CHOOSE i \in S : \A j \in S : j <= i

\* login (last.u, last.p) went against the hash of the last record of last.u
AgainstLastRecord ==
    last.authenticated <=>
        /\ RecordsOf(last.u) # {}
        /\ AccountFields(LastOf(RecordsOf(last.u)))[2] = hash_password(last.p)

\* C25 as stated: with several records of one username in users.txt, login
\* authenticates against the hash of the last of them in file order, and
\* the password of every earlier record of that username is rejected
C25_EarlierRejected ==
    last.op = "login" =>
        /\ AgainstLastRecord
        /\ \A i \in RecordsOf(last.u) :
               (i # LastOf(RecordsOf(last.u))
                /\ AccountFields(i)[2] = hash_password(last.p)) => ~last.authenticated

\* C25 amended: login authenticates exactly against the hash of the last
\* record of the username in file order; the password of an earlier record
\* is rejected when it is not also the password of the last record
C25_LastRecordWins ==
    last.op = "login" =>
        /\ AgainstLastRecord
        /\ \A i \in RecordsOf(last.u) :
               (/\ AccountFields(i)[2] = hash_password(last.p)
                /\ AccountFields(LastOf(RecordsOf(last.u)))[2] # hash_password(last.p))
                   => ~last.authenticated

\* users.txt holds alice with password123 and then alice with secret99, and
\* the login alice / password123 was just rejected
C25_Witness ==
    /\ Len(users_txt.lines) = 2
    /\ users_txt.lines[1] = DupLine(variant, Alice, "password123")
    /\ users_txt.lines[2] = DupLine(variant, Alice, "secret99")
    /\ last.op = "login" /\ last.u = Alice /\ last.p = "password123"
    /\ ~last.authenticated

(***************************************************************************)
(* Registration attempts.                                                  *)
(***************************************************************************)
\* the step is the Sign Up / Register handler run on the form f
SignUpOf(f) == app_SignUp(f.u, f.p, f.c) \/ p_SignUp(f.u, f.email, f.p, f.c)

\* every check of the form passes on the accounts file as it is
ChecksPass(f) ==
    /\ f.u # <<>> /\ f.p # ""
    /\ variant = "p" => f.email # <<>>
    /\ Len(f.p) >= 6
    /\ f.p = f.c
    /\ ~DictHas(UsersOf(users_txt), f.u)

\* C26: a registration attempt appends an account line only when every
\* required field is filled in, the password has at least 6 characters and
\* equals its confirmation, and the pre-check scan does not find the
\* username; a rejected attempt leaves users.txt, bookings.txt and the
\* session state as they were
C26_AppendOnlyWhenChecksPass ==
    [][\A f \in SignupForms :
           SignUpOf(f) =>
               /\ users_txt' # users_txt => ChecksPass(f) /\ OneLineMore(users_txt, users_txt')
               /\ ~ChecksPass(f) =>
                      /\ ~last'.saved
                      /\ UNCHANGED <<users_txt, bookings_txt, logged_in, username,
                                     user_bookings, latest_booking>>]_vars

\* alice is registered and a registration with a 3-character password was
\* just rejected
C26_Witness ==
    /\ last.op = "signup" /\ ~last.saved
    /\ last.message = "Password must be at least 6 characters"
    /\ Len(users_txt.lines) = 1


(***************************************************************************)
(* The scripts on a disk that may refuse a write: open(name, 'a') succeeds *)
(* or raises (a read-only directory, a full disk), the choice made anew at *)
(* every write.  All presses fall within one second of the clock.          *)
(***************************************************************************)
DiskNext ==
    \/ \E f \in LoginForms : app_Login(f.u, f.p)
    \/ \E f \in LoginForms : p_Login(f.u, f.p)
    \/ \E f \in SignupForms, opens \in BOOLEAN : app_SignUpOnDisk(f.u, f.p, f.c, opens)
    \/ \E f \in SignupForms, opens \in BOOLEAN : p_SignUpOnDisk(f.u, f.email, f.p, f.c, opens)
    \/ Logout
    \/ \E form \in BookingForms, opens \in BOOLEAN : app_ConfirmBookingOnDisk(form, opens)
    \/ \E form \in BookingForms, opens \in BOOLEAN : p_ConfirmBookingOnDisk(form, opens)

SpecDisk == Init /\ [][DiskNext]_vars

\* the handler run reported success: the success message (with the booking
\* id and the QR code, for a booking)
ReportsSuccess(outcome) ==
    /\ outcome.op \in {"signup", "book"}
    /\ \/ outcome.saved
       \/ outcome.message \in {"Account created successfully! Please login.",
                               "Registration successful! Please login.",
                               "Booking Confirmed!"}

\* the file gained exactly the line of this record
AppendedLine(before, after, line) ==
    after.exists /\ after.lines = before.lines \o <<line>>

SignUpLine(f) ==
    IF variant = "app" THEN app_user_line(f.u, f.p)
    ELSE p_user_line(f.u, f.p, f.email, StampStr(now))

BookingLineOf(form) ==
    IF variant = "app" THEN app_booking_line(app_booking_data(username, form, now))
    ELSE p_booking_line(p_booking_data(username, form, now))

\* app.py wants the contact e-mail and the phone number
FormValid(form) == variant = "app" => form.email # <<>> /\ form.phone # <<>>

(***************************************************************************)
(* C27: a run of Sign Up / Register or of Confirm Booking reports success  *)
(* or changes the session's user_bookings or latest_booking only in a step *)
(* that appends the record's line to its file; when the booking form of    *)
(* app.py lacks the contact e-mail or the phone number, or the write       *)
(* fails, the run reports no success and leaves both files and the         *)
(* session's booking state as they were.                                   *)
(***************************************************************************)
C27_SuccessOnlyAfterAppend ==
    [][/\ \A f \in SignupForms, opens \in BOOLEAN :
              (\/ app_SignUpOnDisk(f.u, f.p, f.c, opens)
               \/ p_SignUpOnDisk(f.u, f.email, f.p, f.c, opens)) =>
                  /\ ReportsSuccess(last') =>
                         AppendedLine(users_txt, users_txt', SignUpLine(f))
                  /\ ~opens =>
                         /\ ~ReportsSuccess(last')
                         /\ UNCHANGED <<users_txt, bookings_txt, user_bookings, latest_booking>>
       /\ \A form \in BookingForms, opens \in BOOLEAN :
              (\/ app_ConfirmBookingOnDisk(form, opens)
               \/ p_ConfirmBookingOnDisk(form, opens)) =>
                  /\ (\/ ReportsSuccess(last')
                      \/ user_bookings' # user_bookings
                      \/ latest_booking' # latest_booking) =>
                         AppendedLine(bookings_txt, bookings_txt', BookingLineOf(form))
                  /\ (~opens \/ ~FormValid(form)) =>
                         /\ ~ReportsSuccess(last')
                         /\ UNCHANGED <<users_txt, bookings_txt, user_bookings, latest_booking>>]_vars

\* app.py: after one booking was saved and loaded into the session, a write
\* of a second one failed
C27_Witness ==
    /\ variant = "app"
    /\ last.op = "book" /\ ~last.saved
    /\ last.message = "Error saving booking. Please try again."
    /\ Len(bookings_txt.lines) = 1
    /\ Len(user_bookings) = 1


\* the username a line of bookings.txt carries: json.loads(line)['username']
\* in app.py, the second field in p.py
LineUser(line) ==
    IF variant = "app" THEN BookingUser(json_loads(Strip(line)).val)
    ELSE Split(Strip(line), PIPE)[2]

(***************************************************************************)
(* C28: bookings.txt gains a line only in a step of a logged-in session,   *)
(* and the line carries that session's username; in every reachable state  *)
(* the username of every line of bookings.txt is a key of what load_users  *)
(* reads from users.txt.                                                   *)
(***************************************************************************)
C28_BookingsHaveAccounts ==
    /\ [](\A i \in 1..Len(bookings_txt.lines) :
              DictHas(UsersOf(users_txt), LineUser(bookings_txt.lines[i])))
    /\ [][bookings_txt' # bookings_txt =>
              /\ logged_in /\ logged_in'
              /\ OneLineMore(bookings_txt, bookings_txt')
              /\ LineUser(bookings_txt'.lines[Len(bookings_txt'.lines)]) = username]_vars

\* a user booked and logged out, and a second account was registered after
C28_Witness ==
    /\ ~logged_in
    /\ Len(bookings_txt.lines) >= 1
    /\ Len(users_txt.lines) >= 2
    /\ last.op = "signup" /\ last.saved


\* len(st.session_state.user_bookings), the "Your Bookings" figure of Home,
\* Platform Statistics and the footer
YourBookings == Len(user_bookings)

\* the lines of bookings.txt that carry the username u
LinesOf(u) == SelectSeq(bookings_txt.lines, LAMBDA line : LineUser(line) = u)

(***************************************************************************)
(* C29: in app.py, with this session the only writer, while the session is *)
(* logged in (after Login, after each Confirm Booking, after each visit to *)
(* My Bookings) user_bookings equals load_user_bookings(username) of the   *)
(* file as it is, and the "Your Bookings" figure equals the number of      *)
(* lines of bookings.txt that carry the session username.                  *)
(***************************************************************************)
C29_SessionListIsScan ==
    (variant = "app" /\ logged_in) =>
        /\ user_bookings = app_load_user_bookings(bookings_txt, username).value
        /\ YourBookings = Len(LinesOf(username))

\* the second booking of the session's user was confirmed
C29_Witness ==
    /\ variant = "app" /\ logged_in
    /\ last.op = "book" /\ last.saved
    /\ YourBookings = 2

====
